---------------------------- MODULE Spec2Model ----------------------------
(***************************************************************************)
(* A model of sayhisort (src/sayhisort.h): an in-place, stable,            *)
(* swap-only block merge sort.                                             *)
(*                                                                         *)
(* The array lives in a memory  a : 0..MemLen-1 -> element.  An element is *)
(* a pair <<key, tag>>: the comparator composed with the projection        *)
(* compares keys only, the tag is the element's position in the input.     *)
(* Every routine of the source is an operator over a machine record m:     *)
(*   m.a     the memory                                                    *)
(*   m.rev   whether Iterator is ReversedIterator<...> in this             *)
(*           instantiation                                                 *)
(*   m.log   the iter_swap calls made so far: <<i, j, v, w>> stores v at   *)
(*           memory index i and w at memory index j                        *)
(*   m.lo, m.hi  least and greatest memory index compared or swapped       *)
(*   m.mx    greatest absolute value computed in the index type diff_t     *)
(*   m.err   a division or modulo by a non-positive diff_t value happened  *)
(*   m.wild  an access outside the memory happened (undefined behaviour)   *)
(* An iterator is an integer.  A plain iterator is the memory index; a     *)
(* ReversedIterator with member base is the integer -base, so that it + d  *)
(* is integer addition for both kinds.                                     *)
(***************************************************************************)
EXTENDS Integers, Sequences, FiniteSets, TLC

\* ------------------------------------------------------------------ bounds
\* Guard cells on each side of the array in the sort specification.
Guard == 2

\* ------------------------------------------------------------ arithmetic
Abs(x) == IF x < 0 THEN -x ELSE x
MaxOf(S) == CHOOSE x \in S : \A y \in S : y <= x
MinOf(S) == CHOOSE x \in S : \A y \in S : x <= y

\* C++ integer division (truncation toward zero); 0 when the divisor is 0.
CDiv(x, y) ==
  IF y = 0 THEN 0
  ELSE IF (x >= 0) = (y > 0) THEN Abs(x) \div Abs(y) ELSE -(Abs(x) \div Abs(y))
\* C++ remainder: x - (x / y) * y.
CMod(x, y) == x - CDiv(x, y) * y

RECURSIVE Pow2(_)
Pow2(s) == IF s <= 0 THEN 1 ELSE 2 * Pow2(s - 1)
\* x >> s and x << s for x >= 0
Shr(x, s) == x \div Pow2(s)
Shl(x, s) == x * Pow2(s)

\* --------------------------------------------------------------- elements
Key(e) == e[1]
Tag(e) == e[2]
\* comp(proj(x), proj(y)): the strict weak order on elements
Less(x, y) == Key(x) < Key(y)
\* what a read outside the memory yields
WildElem == <<0, -1>>

\* ---------------------------------------------------------------- machine
NewMachine(a) ==
  [a |-> a, rev |-> FALSE, log |-> <<>>, lo |-> 0, hi |-> -1,
   mx |-> 0, err |-> FALSE, wild |-> FALSE, calls |-> <<>>]

\* ReversedIterator::operator* : the element one before base
Phys(m, it) == IF m.rev THEN -it - 1 ELSE it

Deref(m, it) ==
  LET i == Phys(m, it) IN IF i \in DOMAIN m.a THEN m.a[i] ELSE WildElem

\* the machine after the memory indices in S were accessed
Touch(m, S) ==
  [m EXCEPT !.lo = MinOf(S \cup (IF m.hi < m.lo THEN {} ELSE {m.lo})),
            !.hi = MaxOf(S \cup (IF m.hi < m.lo THEN {} ELSE {m.hi})),
            !.wild = @ \/ \E i \in S : i \notin DOMAIN m.a]

\* the machine after the diff_t values in S were computed (CheckedInt::CheckRange)
Chk(m, S) == [m EXCEPT !.mx = MaxOf({@} \cup {Abs(x) : x \in S})]
\* the machine after a division or modulo by d (CheckedInt::operator/=, %=)
ChkDiv(m, d) == [m EXCEPT !.err = @ \/ d <= 0]

\* a faulty comparison: the non-strict form compares strictly as well
IterComp_strict(l, r, rev, strict) ==
  IF rev THEN Less(r, l) ELSE Less(l, r)

\* IterComp::operator() on the elements l = *lhs and r = *rhs; rev tells the
\* overload for ReversedIterator
IterComp_call(l, r, rev, strict) ==
  IF rev
  THEN IF strict THEN Less(r, l) ELSE ~Less(l, r)
  ELSE IF strict THEN Less(l, r) ELSE ~Less(r, l)

\* a faulty iter_comp: the strict form compares non-strictly as well
IterComp_lax(m, lhs, rhs, strict) ==
  IterComp_call(Deref(m, lhs), Deref(m, rhs), m.rev, FALSE)

\* the value of iter_comp(lhs, rhs, bool_constant<strict>)
IterComp(m, lhs, rhs, strict) ==
  IterComp_call(Deref(m, lhs), Deref(m, rhs), m.rev, strict)
\* the machine after iter_comp(lhs, rhs, ...) read its two operands
Seen(m, lhs, rhs) == Touch(m, {Phys(m, lhs), Phys(m, rhs)})

\* a faulty exchange: the second store is lost, *x = *y only
iter_swap_copy(t, i, j) ==
  IF i \in DOMAIN t.a /\ j \in DOMAIN t.a
  THEN [t EXCEPT !.a = [@ EXCEPT ![i] = t.a[j]],
                 !.log = Append(@, <<i, j, t.a[j], t.a[j]>>)]
  ELSE t

\* the exchange of the elements at memory indices i and j
iter_swap_at(t, i, j) ==
  IF i \in DOMAIN t.a /\ j \in DOMAIN t.a
  THEN [t EXCEPT !.a = [@ EXCEPT ![i] = t.a[j], ![j] = t.a[i]],
                 !.log = Append(@, <<i, j, t.a[j], t.a[i]>>)]
  ELSE t

\* iter_swap(x, y)
iter_swap(m, x, y) ==
  iter_swap_at(Touch(m, {Phys(m, x), Phys(m, y)}), Phys(m, x), Phys(m, y))

\* -------------------------------------------------------------- utilities
\* OverApproxSqrt: the loop  for (p = x; p >= 8; p /= 4) ++n
RECURSIVE OverApproxSqrt_n(_, _)
OverApproxSqrt_n(p, n) == IF p >= 8 THEN OverApproxSqrt_n(p \div 4, n + 1) ELSE n

OverApproxSqrt_r0(x) ==
  LET n == OverApproxSqrt_n(x, 1) IN Shl(1, n - 1) + Shr(x - 1, n + 1) + 1

\* a faulty Newton step: the quotient is not rounded up
OverApproxSqrt_floor(x) ==
  LET r0 == OverApproxSqrt_r0(x) IN (r0 + (x - 1) \div r0) \div 2

OverApproxSqrt(x) ==
  LET r0 == OverApproxSqrt_r0(x) IN (r0 + (x - 1) \div r0) \div 2 + 1

\* the diff_t values OverApproxSqrt(x) computes
OverApproxSqrt_vals(x) ==
  LET n == OverApproxSqrt_n(x, 1)
      r0 == OverApproxSqrt_r0(x)
  IN {x, n, n - 1, n + 1, Shl(1, n - 1), x - 1, Shr(x - 1, n + 1),
      Shl(1, n - 1) + Shr(x - 1, n + 1), r0, (x - 1) \div r0,
      r0 + (x - 1) \div r0, (r0 + (x - 1) \div r0) \div 2, OverApproxSqrt(x)}

\* do { iter_swap(first++, middle++); } while (middle != last);
RECURSIVE Rotate_swapl(_, _, _, _)
Rotate_swapl(m, first, middle, last) ==
  LET m1 == iter_swap(m, first, middle) IN
  IF middle + 1 # last /\ ~m1.wild
  THEN Rotate_swapl(m1, first + 1, middle + 1, last)
  ELSE [m |-> m1, first |-> first + 1]

\* do { iter_swap(--last, --middle); } while (middle != first);
RECURSIVE Rotate_swapr(_, _, _, _)
Rotate_swapr(m, first, middle, last) ==
  LET m1 == iter_swap(m, last - 1, middle - 1) IN
  IF middle - 1 # first /\ ~m1.wild
  THEN Rotate_swapr(m1, first, middle - 1, last - 1)
  ELSE [m |-> m1, last |-> last - 1]

\* while (f < --m) iter_swap(f++, m);
RECURSIVE Rotate_reverse(_, _, _)
Rotate_reverse(m, f, l) ==
  IF f < l - 1 /\ ~m.wild
  THEN Rotate_reverse(iter_swap(m, f, l - 1), f + 1, l - 1)
  ELSE m

\* a faulty end of Rotate: the reversal of the whole range is left out
Rotate_triple_two(m, first, middle, last) ==
  Rotate_reverse(Rotate_reverse(m, first, middle), middle, last)

\* the three reversals at the end of Rotate
Rotate_triple(m, first, middle, last) ==
  Rotate_reverse(Rotate_reverse(Rotate_reverse(m, first, middle), middle, last),
                 first, last)

\* the helix loop  while (len > 64) {...}  followed by the triple reversal
RECURSIVE Rotate_helix(_, _, _, _, _, _, _)
Rotate_helix(m, first, middle, last, l_len, r_len, len) ==
  IF len > 64 /\ ~m.wild
  THEN IF l_len <= r_len
       THEN LET rem == CMod(r_len, l_len)
                s == Rotate_swapl(ChkDiv(Chk(m, {rem}), l_len), first, middle, last)
            IN IF rem = 0 THEN s.m
               ELSE Rotate_helix(Chk(s.m, {l_len - rem}), s.first, last - rem, last,
                                 l_len - rem, rem, l_len)
       ELSE LET rem == CMod(l_len, r_len)
                s == Rotate_swapr(ChkDiv(Chk(m, {rem}), r_len), first, middle, last)
            IN IF rem = 0 THEN s.m
               ELSE Rotate_helix(Chk(s.m, {r_len - rem}), first, first + rem, s.last,
                                 rem, r_len - rem, r_len)
  ELSE Rotate_triple(m, first, middle, last)

Rotate(m, first, middle, last) ==
  LET l_len == middle - first
      r_len == last - middle
      len == l_len + r_len
  IN Rotate_helix(Chk(m, {l_len, r_len, len}), first, middle, last, l_len, r_len, len)

\* BinarySearch: while ((mid = len / 2)) {...}
RECURSIVE BinarySearch_loop(_, _, _, _, _)
BinarySearch_loop(m, base, len, key, strict) ==
  LET mid == CDiv(len, 2) IN
  IF mid = 0 \/ m.wild THEN [m |-> Chk(m, {mid}), pos |-> base]
  ELSE LET pivot == base + mid
           c == IterComp(m, pivot - 1, key, strict)
           m1 == Chk(Seen(m, pivot - 1, key), {mid, len - mid})
       IN BinarySearch_loop(m1, IF c THEN pivot ELSE base, len - mid, key, strict)

\* a faulty BinarySearch: len = last - first
BinarySearch_short(m, first, last, key, strict) ==
  BinarySearch_loop(Chk(m, {last - first}), first, last - first, key, strict)

BinarySearch(m, first, last, key, strict) ==
  BinarySearch_loop(Chk(m, {last - first, last - first + 1}), first,
                    last - first + 1, key, strict)

\* ------------------------------------------------------ basic merge routines
\* MergeWithBuf, the cross-merge loop
\*   while (xs < xs_last - 1 && ys < ys_last - 1) {...}
RECURSIVE MergeWithBuf_cross(_, _, _, _, _, _, _)
MergeWithBuf_cross(m, buf, xs, ys, xs_last, ys_last, is_xs_from_right) ==
  IF xs < xs_last - 1 /\ ys < ys_last - 1 /\ ~m.wild
  THEN LET c1 == IterComp(m, xs + 1, ys, is_xs_from_right)
           m1 == Seen(m, xs + 1, ys)
       IN IF c1
          THEN MergeWithBuf_cross(iter_swap(iter_swap(m1, buf, xs), buf + 1, xs + 1),
                                  buf + 2, xs + 2, ys, xs_last, ys_last, is_xs_from_right)
          ELSE LET c2 == IterComp(m1, xs, ys + 1, is_xs_from_right)
                   m2 == Seen(m1, xs, ys + 1)
               IN IF ~c2
                  THEN MergeWithBuf_cross(
                         iter_swap(iter_swap(m2, buf, ys), buf + 1, ys + 1),
                         buf + 2, xs, ys + 2, xs_last, ys_last, is_xs_from_right)
                  ELSE LET y_pos == IterComp(m2, xs, ys, is_xs_from_right)
                           m3 == Seen(m2, xs, ys)
                           m4 == iter_swap(m3, buf + (IF y_pos THEN 0 ELSE 1), xs)
                           m5 == iter_swap(m4, buf + (IF y_pos THEN 1 ELSE 0), ys)
                       IN MergeWithBuf_cross(m5, buf + 2, xs + 1, ys + 1,
                                             xs_last, ys_last, is_xs_from_right)
  ELSE [m |-> m, buf |-> buf, xs |-> xs, ys |-> ys]

\* the loop entered with exactly one element left in xs
\*   do { if (iter_comp(xs, ys)) {...; break;} iter_swap(buf++, ys++); } while (ys < ys_last);
RECURSIVE MergeWithBuf_lastx(_, _, _, _, _, _)
MergeWithBuf_lastx(m, buf, xs, ys, ys_last, is_xs_from_right) ==
  LET c == IterComp(m, xs, ys, is_xs_from_right)
      m1 == Seen(m, xs, ys)
  IN IF c
     THEN [m |-> iter_swap(m1, buf, xs), buf |-> buf + 1, xs |-> xs + 1, ys |-> ys,
           xs_consumed |-> TRUE]
     ELSE LET m2 == iter_swap(m1, buf, ys) IN
          IF ys + 1 < ys_last /\ ~m2.wild
          THEN MergeWithBuf_lastx(m2, buf + 1, xs, ys + 1, ys_last, is_xs_from_right)
          ELSE [m |-> m2, buf |-> buf + 1, xs |-> xs, ys |-> ys + 1,
                xs_consumed |-> FALSE]

\* the loop entered with exactly one element left in ys
\*   do { if (!iter_comp(xs, ys)) {...; break;} iter_swap(buf++, xs++); } while (xs < xs_last);
RECURSIVE MergeWithBuf_lasty(_, _, _, _, _, _)
MergeWithBuf_lasty(m, buf, xs, ys, xs_last, is_xs_from_right) ==
  LET c == IterComp(m, xs, ys, is_xs_from_right)
      m1 == Seen(m, xs, ys)
  IN IF ~c
     THEN [m |-> iter_swap(m1, buf, ys), buf |-> buf + 1, xs |-> xs, ys |-> ys + 1,
           xs_consumed |-> FALSE]
     ELSE LET m2 == iter_swap(m1, buf, xs) IN
          IF xs + 1 < xs_last /\ ~m2.wild
          THEN MergeWithBuf_lasty(m2, buf + 1, xs + 1, ys, xs_last, is_xs_from_right)
          ELSE [m |-> m2, buf |-> buf + 1, xs |-> xs + 1, ys |-> ys,
                xs_consumed |-> TRUE]

\* the single-element loops after the cross merge; c holds buf, xs and ys as
\* the cross merge left them
MergeWithBuf_tail(c, xs_last, ys_last, is_xs_from_right) ==
  IF c.xs = xs_last - 1
  THEN MergeWithBuf_lastx(c.m, c.buf, c.xs, c.ys, ys_last, is_xs_from_right)
  ELSE IF c.ys = ys_last - 1
  THEN MergeWithBuf_lasty(c.m, c.buf, c.xs, c.ys, xs_last, is_xs_from_right)
  ELSE [m |-> c.m, buf |-> c.buf, xs |-> c.xs, ys |-> c.ys,
        xs_consumed |-> (c.xs = xs_last)]

\* do { iter_swap(--ys, --xs_last); } while (xs_last != xs);
RECURSIVE MergeWithBuf_moveleft(_, _, _, _)
MergeWithBuf_moveleft(m, xs, xs_last, ys) ==
  LET m1 == iter_swap(m, ys - 1, xs_last - 1) IN
  IF xs_last - 1 # xs /\ ~m1.wild
  THEN MergeWithBuf_moveleft(m1, xs, xs_last - 1, ys - 1)
  ELSE [m |-> m1, ys |-> ys - 1]

\* the result of MergeWithBuf from the moved rest of xs: b.ys is where it starts
MergeWithBuf_result(b, buf, xs_consumed) ==
  [m |-> b.m, buf |-> buf, xs_consumed |-> xs_consumed, rest |-> b.ys]

\* a faulty end of MergeWithBuf: the rest of xs is left where it is
MergeWithBuf_rest_stay(t, xs_last) ==
  MergeWithBuf_result(t, t.buf, t.xs_consumed)

\* the end of MergeWithBuf: the rest of xs is moved next to the rest of ys
\*   if (!xs_consumed) { do {...} while (xs_last != xs); }  return {xs_consumed, ys};
MergeWithBuf_rest(t, xs_last) ==
  IF t.xs_consumed
  THEN MergeWithBuf_result(t, t.buf, TRUE)
  ELSE MergeWithBuf_result(MergeWithBuf_moveleft(t.m, t.xs, xs_last, t.ys), t.buf, FALSE)

\* MergeWithBuf<is_xs_from_right>(buf, xs, ys, ys_last); buf is a reference
\* parameter, its final value is the field buf of the result.
MergeWithBuf(m, buf, xs, ys, ys_last, is_xs_from_right) ==
  MergeWithBuf_rest(
    MergeWithBuf_tail(
      MergeWithBuf_cross(m, buf, xs, ys, ys, ys_last, is_xs_from_right),
      ys, ys_last, is_xs_from_right),
    ys)

\* MergeWithoutBuf<is_xs_from_right>(xs, ys, ys_last)
RECURSIVE MergeWithoutBuf(_, _, _, _, _)

\* a faulty insertion: MergeWithoutBuf returns after the first rotation
MergeWithoutBuf_rotate_once(u, xs, ys, ys_last, is_xs_from_right) ==
  [m |-> Chk(Rotate(u.m, xs, ys, u.pos), {u.pos - ys}),
   xs_consumed |-> FALSE, rest |-> xs + (u.pos - ys)]

\* MergeWithoutBuf, the insertion of xs into ys; u.pos is ys_upper
\*   Rotate(xs, ys, ys_upper); xs += ys_upper - ys; ys = ys_upper;
\*   if (ys_upper == ys_last) return {false, xs};
MergeWithoutBuf_rotate(u, xs, ys, ys_last, is_xs_from_right) ==
  IF u.pos = ys_last
  THEN [m |-> Chk(Rotate(u.m, xs, ys, u.pos), {u.pos - ys}),
        xs_consumed |-> FALSE, rest |-> xs + (u.pos - ys)]
  ELSE MergeWithoutBuf(Chk(Rotate(u.m, xs, ys, u.pos), {u.pos - ys}),
                       xs + (u.pos - ys), u.pos, ys_last, is_xs_from_right)

\* MergeWithoutBuf, after xs was sought; s.pos is the new xs
\*   if (xs == ys) return {true, ys};
\*   ys_upper = ys + 1; if (ys_upper != ys_last) ys_upper = BinarySearch<...>(...);
MergeWithoutBuf_insert(s, ys, ys_last, is_xs_from_right) ==
  IF s.pos = ys \/ s.m.wild
  THEN [m |-> s.m, xs_consumed |-> TRUE, rest |-> ys]
  ELSE MergeWithoutBuf_rotate(
         IF ys + 1 # ys_last
         THEN BinarySearch(s.m, ys + 1, ys_last, s.pos, ~is_xs_from_right)
         ELSE [m |-> s.m, pos |-> ys + 1],
         s.pos, ys, ys_last, is_xs_from_right)

MergeWithoutBuf(m, xs, ys, ys_last, is_xs_from_right) ==
  MergeWithoutBuf_insert(BinarySearch(m, xs, ys, ys, is_xs_from_right),
                         ys, ys_last, is_xs_from_right)

\* --------------------------------------------------- block merge subroutines
\* InterleaveBlocks, the lambda swapBlock
\*   if (a == b) return; i = block_len; do { iter_swap(a++, b++); } while (--i);
RECURSIVE swapBlock_loop(_, _, _, _)
swapBlock_loop(m, a, b, i) ==
  LET m1 == Chk(iter_swap(m, a, b), {i - 1}) IN
  IF i - 1 # 0 /\ ~m1.wild THEN swapBlock_loop(m1, a + 1, b + 1, i - 1) ELSE m1

swapBlock(m, a, b, block_len) ==
  IF a = b THEN m ELSE swapBlock_loop(m, a, b, block_len)

\* InterleaveBlocks, the linear search
\*   for (key = ...; key < right_keys; ++key) if (iter_comp(key, least_left_key)) least_left_key = key;
RECURSIVE InterleaveBlocks_least(_, _, _, _)
InterleaveBlocks_least(m, key, right_keys, least_left_key) ==
  IF key < right_keys /\ ~m.wild
  THEN InterleaveBlocks_least(Seen(m, key, least_left_key), key + 1, right_keys,
         IF IterComp(m, key, least_left_key, TRUE) THEN key ELSE least_left_key)
  ELSE [m |-> m, least_left_key |-> least_left_key]

\* InterleaveBlocks, the loop  while (true) {...} ; s holds the loop's variables
RECURSIVE InterleaveBlocks_loop(_, _, _, _)
InterleaveBlocks_loop(s, orig_right_key, last_right_key, block_len) ==
  LET atEnd == s.right_keys = last_right_key
      m0 == IF atEnd THEN s.m ELSE Seen(s.m, s.right_blocks, s.least_left_block)
  IN
  IF m0.wild THEN [m |-> m0, mid_key |-> s.least_right_key]
  ELSE IF atEnd \/ ~IterComp(s.m, s.right_blocks, s.least_left_block, TRUE)
  THEN LET m1 == swapBlock(iter_swap(m0, s.left_keys, s.least_left_key),
                           s.left_blocks, s.least_left_block, block_len)
           left_keys == s.left_keys + 1
           left_blocks == s.left_blocks + block_len
       IN IF left_keys = s.right_keys
          THEN [m |-> m1, mid_key |-> s.least_right_key]
          ELSE LET f == InterleaveBlocks_least(m1,
                          IF left_keys < orig_right_key THEN orig_right_key
                                                        ELSE left_keys + 1,
                          s.right_keys, left_keys)
                   d == f.least_left_key - left_keys
               IN InterleaveBlocks_loop(
                    [s EXCEPT !.m = Chk(f.m, {d, d * block_len}),
                              !.left_keys = left_keys,
                              !.left_blocks = left_blocks,
                              !.least_left_key = f.least_left_key,
                              !.least_left_block = left_blocks + d * block_len],
                    orig_right_key, last_right_key, block_len)
  ELSE LET m1 == swapBlock(iter_swap(m0, s.left_keys, s.right_keys),
                           s.left_blocks, s.right_blocks, block_len)
           wasLeast == s.left_keys = s.least_left_key
       IN InterleaveBlocks_loop(
            [m |-> m1,
             left_keys |-> s.left_keys + 1,
             right_keys |-> s.right_keys + 1,
             left_blocks |-> s.left_blocks + block_len,
             right_blocks |-> s.right_blocks + block_len,
             least_left_key |-> IF wasLeast THEN s.right_keys ELSE s.least_left_key,
             least_left_block |-> IF wasLeast THEN s.right_blocks
                                              ELSE s.least_left_block,
             least_right_key |-> IF s.right_keys = s.least_right_key
                                 THEN s.left_keys ELSE s.least_right_key],
            orig_right_key, last_right_key, block_len)

\* InterleaveBlocks(imit, blocks, imit_len, block_len); the result's mid_key is
\* the returned iterator
\* a faulty return: InterleaveBlocks returns orig_right_key
InterleaveBlocks_orig(m, imit, blocks, imit_len, block_len) ==
  IF imit_len = 0 THEN [m |-> m, mid_key |-> imit]
  ELSE [m |-> InterleaveBlocks_loop(
                [m |-> Chk(m, {CDiv(imit_len, 2), CDiv(imit_len, 2) * block_len}),
                 left_keys |-> imit,
                 right_keys |-> imit + CDiv(imit_len, 2),
                 left_blocks |-> blocks,
                 right_blocks |-> blocks + CDiv(imit_len, 2) * block_len,
                 least_left_key |-> imit,
                 least_left_block |-> blocks,
                 least_right_key |-> imit + CDiv(imit_len, 2)],
                imit + CDiv(imit_len, 2), imit + imit_len, block_len).m,
        mid_key |-> imit + CDiv(imit_len, 2)]

InterleaveBlocks(m, imit, blocks, imit_len, block_len) ==
  IF imit_len = 0 THEN [m |-> m, mid_key |-> imit]
  ELSE LET half == CDiv(imit_len, 2)
           right_keys == imit + half
       IN InterleaveBlocks_loop(
            [m |-> Chk(m, {half, half * block_len}),
             left_keys |-> imit,
             right_keys |-> right_keys,
             left_blocks |-> blocks,
             right_blocks |-> blocks + half * block_len,
             least_left_key |-> imit,
             least_left_block |-> blocks,
             least_right_key |-> right_keys],
            right_keys, right_keys + half, block_len)

\* DeinterleaveImitation with a buffer: while (cur != imit + imit_len) {...}
RECURSIVE DeinterleaveImitationBuf_part(_, _, _, _, _, _)
DeinterleaveImitationBuf_part(m, left_cur, right_cur, cur, mid_key, imit_end) ==
  IF cur # imit_end /\ ~m.wild
  THEN LET m1 == Seen(m, cur, mid_key) IN
       IF IterComp(m, cur, mid_key, TRUE)
       THEN DeinterleaveImitationBuf_part(iter_swap(m1, left_cur, cur),
              left_cur + 1, right_cur, cur + 1, mid_key, imit_end)
       ELSE DeinterleaveImitationBuf_part(iter_swap(m1, right_cur, cur),
              left_cur, right_cur + 1, cur + 1, mid_key, imit_end)
  ELSE [m |-> m, left_cur |-> left_cur, right_cur |-> right_cur]

\* do { iter_swap(left_cur++, buf++); } while (buf != right_cur);
RECURSIVE DeinterleaveImitationBuf_append(_, _, _, _)
DeinterleaveImitationBuf_append(m, left_cur, buf, right_cur) ==
  LET m1 == iter_swap(m, left_cur, buf) IN
  IF buf + 1 # right_cur /\ ~m1.wild
  THEN DeinterleaveImitationBuf_append(m1, left_cur + 1, buf + 1, right_cur)
  ELSE m1

\* a faulty variant: the right keys are left in the buffer
DeinterleaveImitationBuf_part_only(m, imit, imit_len, buf, mid_key) ==
  IF imit_len = 0 THEN m
  ELSE DeinterleaveImitationBuf_part(iter_swap(m, mid_key, buf),
         mid_key, buf + 1, mid_key + 1, buf, imit + imit_len).m

\* DeinterleaveImitation(imit, imit_len, buf, mid_key)
DeinterleaveImitationBuf(m, imit, imit_len, buf, mid_key) ==
  IF imit_len = 0 THEN m
  ELSE LET p == DeinterleaveImitationBuf_part(iter_swap(m, mid_key, buf),
                  mid_key, buf + 1, mid_key + 1, buf, imit + imit_len)
       IN DeinterleaveImitationBuf_append(p.m, p.left_cur, buf, p.right_cur)

\* DeinterleaveImitation in place, the end of a right-left pair of runs at cur:
\* the body of  if (cur == imit + imit_len || !iter_comp(cur, mid_key)) {...}
\* s holds the pass's variables, m is the machine after the comparison
DeinterleaveImitation_run(s, m, cur, atEnd) ==
  LET pair == s.l_runlength # 0
      num_rl_pairs == s.num_rl_pairs + (IF pair THEN 1 ELSE 0)
      odd == pair /\ num_rl_pairs % 2 # 0
      r_runlength == (IF pair THEN 0 ELSE s.r_runlength) + (IF atEnd THEN 0 ELSE 1)
  IN [m |-> Chk(IF odd
                THEN Rotate(m, cur - s.l_runlength - s.r_runlength,
                            cur - s.l_runlength, cur)
                ELSE m,
                {num_rl_pairs, r_runlength}),
      l_runlength |-> 0,
      r_runlength |-> r_runlength,
      num_rl_pairs |-> num_rl_pairs,
      mid_key |-> IF odd /\ num_rl_pairs = 1 THEN cur - s.r_runlength ELSE s.mid_key]

\* one pass  while (true) {...; ++cur;}  over the keys; cur is past imit_end
\* once the pass has left the loop
RECURSIVE DeinterleaveImitation_pass(_, _, _)
DeinterleaveImitation_pass(s, imit_end, cur) ==
  IF cur > imit_end \/ s.m.wild THEN s
  ELSE IF cur = imit_end \/ ~IterComp(s.m, cur, s.mid_key, TRUE)
  THEN DeinterleaveImitation_pass(
         DeinterleaveImitation_run(
           s, IF cur = imit_end THEN s.m ELSE Seen(s.m, cur, s.mid_key),
           cur, cur = imit_end),
         imit_end, cur + 1)
  ELSE DeinterleaveImitation_pass(
         [s EXCEPT !.m = Chk(Seen(s.m, cur, s.mid_key),
                             {s.l_runlength + (IF s.r_runlength # 0 THEN 1 ELSE 0)}),
                   !.l_runlength = @ + (IF s.r_runlength # 0 THEN 1 ELSE 0)],
         imit_end, cur + 1)

\* do {...} while (num_rl_pairs > 1);  s holds the variables after a pass
RECURSIVE DeinterleaveImitation_passes(_, _, _)
DeinterleaveImitation_passes(s, imit, imit_len) ==
  IF s.num_rl_pairs > 1 /\ ~s.m.wild
  THEN DeinterleaveImitation_passes(
         DeinterleaveImitation_pass([s EXCEPT !.r_runlength = 0, !.num_rl_pairs = 0],
                                    imit + imit_len, imit),
         imit, imit_len)
  ELSE s.m

\* DeinterleaveImitation(imit, imit_len, mid_key)
DeinterleaveImitation(m, imit, imit_len, mid_key) ==
  IF imit_len = 0 THEN m
  ELSE DeinterleaveImitation_passes(
         DeinterleaveImitation_pass(
           [m |-> m, l_runlength |-> 0, r_runlength |-> 0, num_rl_pairs |-> 0,
            mid_key |-> mid_key],
           imit + imit_len, imit),
         imit, imit_len)

\* ---------------------------------------------------------- full block merge
\* BlockOrigin
kLeft == FALSE
kRight == TRUE

\* a faulty loop: one exchange, then xs jumps to the stop while buf advances by one
MergeAdjacentBlocks_flush_once(m, buf, xs, stop) ==
  [m |-> iter_swap(m, buf, xs), buf |-> buf + 1, xs |-> stop]

\* MergeAdjacentBlocks<true>: do { iter_swap(buf++, xs++); } while (xs != last_block_before_ys + 1);
\* and, with stop = ys, the final  while (xs != ys) iter_swap(buf++, xs++);  after its test
RECURSIVE MergeAdjacentBlocks_flush(_, _, _, _)
MergeAdjacentBlocks_flush(m, buf, xs, stop) ==
  LET m1 == iter_swap(m, buf, xs) IN
  IF xs + 1 # stop /\ ~m1.wild
  THEN MergeAdjacentBlocks_flush(m1, buf + 1, xs + 1, stop)
  ELSE [m |-> m1, buf |-> buf + 1, xs |-> xs + 1]

\* a faulty body: the last block is never rotated in front of a longer xs
MergeAdjacentBlocks_seek_unrotated(s, ys_last, p, has_buf) ==
  IF s.xs = s.last_block_before_ys THEN s
  ELSE IF s.num_remained_blocks = 0 THEN s
  ELSE IF has_buf
  THEN LET f == MergeAdjacentBlocks_flush(s.m, s.buf, s.xs, s.last_block_before_ys + 1)
       IN [s EXCEPT !.m = f.m, !.buf = f.buf, !.xs = f.xs]
  ELSE [s EXCEPT !.xs = s.last_block_before_ys + 1]

\* the body of  if (xs != last_block_before_ys) {...} ; s holds the loop's
\* variables (ys_origin, assigned here, is not read afterwards)
MergeAdjacentBlocks_seek(s, ys_last, p, has_buf) ==
  IF s.xs = s.last_block_before_ys THEN s
  ELSE IF has_buf
  THEN IF s.num_remained_blocks # 0
       THEN LET f == MergeAdjacentBlocks_flush(s.m, s.buf, s.xs,
                                               s.last_block_before_ys + 1)
            IN [s EXCEPT !.m = f.m, !.buf = f.buf, !.xs = f.xs]
       ELSE s
  ELSE IF s.num_remained_blocks # 0
       THEN [s EXCEPT !.xs = s.last_block_before_ys + 1]
       ELSE IF s.ys - s.xs > p.last_block_len
       THEN [s EXCEPT !.m = Rotate([Chk(s.m, {s.ys - s.xs}) EXCEPT !.calls =
                                      Append(@, [op |-> "Rotate", first |-> s.xs,
                                                 middle |-> s.ys, last |-> ys_last])],
                                   s.xs, s.ys, ys_last),
                      !.ys = s.xs + p.last_block_len,
                      !.xs_origin = kRight]
       ELSE [s EXCEPT !.m = Chk(s.m, {s.ys - s.xs})]

\* the loop's variables after the merge returned mr
\*   xs = mr.rest; last_block_before_ys = xs; xs_origin = xs_origin ^ mr.xs_consumed;
\*   ys = ys_last;
MergeAdjacentBlocks_merged(s, mr, ys_last, has_buf) ==
  [s EXCEPT !.m = mr.m,
            !.buf = IF has_buf THEN mr.buf ELSE @,
            !.xs = mr.rest,
            !.last_block_before_ys = mr.rest,
            !.xs_origin = (@ # mr.xs_consumed),
            !.ys = ys_last]

\* the call of MergeWithBuf or MergeWithoutBuf selected by has_buf and xs_origin;
\* the machine's calls record the arguments and the loop's variables at the call
MergeAdjacentBlocks_called(s, ys_last, has_buf) ==
  [s.m EXCEPT !.calls =
     Append(@, [op |-> IF has_buf THEN "MergeWithBuf" ELSE "MergeWithoutBuf",
                buf |-> s.buf, xs |-> s.xs, ys |-> s.ys, ys_last |-> ys_last,
                is_xs_from_right |-> s.xs_origin # kLeft,
                last_block_before_ys |-> s.last_block_before_ys,
                num_remained_blocks |-> s.num_remained_blocks])]

MergeAdjacentBlocks_merge(s, ys_last, has_buf) ==
  MergeAdjacentBlocks_merged(
    s,
    IF has_buf
    THEN MergeWithBuf(MergeAdjacentBlocks_called(s, ys_last, has_buf),
                      s.buf, s.xs, s.ys, ys_last, s.xs_origin # kLeft)
    ELSE MergeWithoutBuf(MergeAdjacentBlocks_called(s, ys_last, has_buf),
                         s.xs, s.ys, ys_last, s.xs_origin # kLeft),
    ys_last, has_buf)

RECURSIVE MergeAdjacentBlocks_loop(_, _, _, _)

\* the loop's test  while (num_remained_blocks);  and the code after the loop
\*   if constexpr (has_buf) { while (xs != ys) iter_swap(buf++, xs++); }
MergeAdjacentBlocks_next(s, p, mid_key, has_buf) ==
  IF s.num_remained_blocks # 0 /\ ~s.m.wild
  THEN MergeAdjacentBlocks_loop(s, p, mid_key, has_buf)
  ELSE IF has_buf /\ s.xs # s.ys /\ ~s.m.wild
  THEN LET f == MergeAdjacentBlocks_flush(s.m, s.buf, s.xs, s.ys)
       IN [m |-> f.m, buf |-> f.buf]
  ELSE [m |-> s.m, buf |-> s.buf]

\* the loop  do {...} while (num_remained_blocks);  s holds the loop's variables
MergeAdjacentBlocks_loop(s, p, mid_key, has_buf) ==
  LET num_remained_blocks == s.num_remained_blocks - 1
      ys_last == s.ys + (IF num_remained_blocks # 0 THEN p.block_len
                                                     ELSE p.last_block_len)
      compared == num_remained_blocks # 0
      ys_origin == IF compared /\ IterComp(s.m, s.imit, mid_key, TRUE)
                   THEN kLeft ELSE kRight
  IN MergeAdjacentBlocks_next(
       IF ys_origin = s.xs_origin
       THEN [s EXCEPT !.m = Chk(IF compared THEN Seen(s.m, s.imit, mid_key) ELSE s.m,
                                {num_remained_blocks}),
                      !.imit = IF compared THEN s.imit + 1 ELSE s.imit,
                      !.num_remained_blocks = num_remained_blocks,
                      !.last_block_before_ys = s.ys,
                      !.ys = ys_last]
       ELSE MergeAdjacentBlocks_merge(
              MergeAdjacentBlocks_seek(
                [s EXCEPT !.m = Chk(IF compared THEN Seen(s.m, s.imit, mid_key)
                                                ELSE s.m,
                                    {num_remained_blocks}),
                          !.imit = IF compared THEN s.imit + 1 ELSE s.imit,
                          !.num_remained_blocks = num_remained_blocks],
                ys_last, p, has_buf),
              ys_last, has_buf),
       p, mid_key, has_buf)

\* MergeAdjacentBlocks<has_buf>(imit, buf, blocks, p, mid_key); buf is a
\* reference parameter, its final value is the field buf of the result.
MergeAdjacentBlocks(m, imit, buf, blocks, p, mid_key, has_buf) ==
  MergeAdjacentBlocks_loop(
    [m |-> Chk(m, {p.num_blocks, p.num_blocks - 1}),
     imit |-> imit, buf |-> buf,
     xs |-> blocks, last_block_before_ys |-> blocks, xs_origin |-> kLeft,
     ys |-> blocks + p.first_block_len,
     num_remained_blocks |-> p.num_blocks - 1],
    p, mid_key, has_buf)

\* MergeBlocking, the final call of DeinterleaveImitation; a holds the machine
\* and buf as MergeAdjacentBlocks left them
\* MergeBlocking without the call of DeinterleaveImitation
MergeBlocking_interleaved(a, imit, imit_len, mid_key, has_buf) ==
  [m |-> a.m, buf |-> a.buf]

MergeBlocking_deinterleave(a, imit, imit_len, mid_key, has_buf) ==
  [m |-> IF has_buf
         THEN DeinterleaveImitationBuf(
                [a.m EXCEPT !.calls =
                   Append(@, [op |-> "DeinterleaveImitation", imit |-> imit,
                              imit_len |-> imit_len, buf |-> a.buf,
                              cells |-> {Tag(Deref(a.m, a.buf + i)) :
                                           i \in 0..(imit_len \div 2 - 1)}])],
                imit, imit_len, a.buf, mid_key)
         ELSE DeinterleaveImitation(a.m, imit, imit_len, mid_key),
   buf |-> a.buf]

\* MergeBlocking after InterleaveBlocks returned i.mid_key
MergeBlocking_merge(i, imit, buf, blocks, p, has_buf) ==
  MergeBlocking_deinterleave(
    MergeAdjacentBlocks(i.m, imit, buf, blocks, p, i.mid_key, has_buf),
    imit, p.num_blocks - 2, i.mid_key, has_buf)

\* MergeBlocking<has_buf>(imit, buf, blocks, p)
MergeBlocking(m, imit, buf, blocks, p, has_buf) ==
  MergeBlocking_merge(
    InterleaveBlocks(Chk(m, {p.num_blocks - 2}), imit, blocks + p.first_block_len,
                     p.num_blocks - 2, p.block_len),
    imit, buf, blocks, p, has_buf)

\* ------------------------------------------------ bottom-up merge sort logic
\* a faulty constructor: the backward divider keeps the forward remainder
SequenceDivider_same(data_len, log2_num_seqs, forward) ==
  LET num_seqs == Shl(1, log2_num_seqs)
  IN [log2_num_seqs |-> log2_num_seqs,
      num_seqs |-> num_seqs,
      remainder |-> CMod(data_len - 1, num_seqs) + 1,
      frac_counter |-> 0,
      forward |-> forward]

\* SequenceDivider<SsizeT, forward>::SequenceDivider(data_len, log2_num_seqs)
SequenceDivider(data_len, log2_num_seqs, forward) ==
  LET num_seqs == Shl(1, log2_num_seqs)
      remainder == CMod(data_len - 1, num_seqs) + 1
  IN [log2_num_seqs |-> log2_num_seqs,
      num_seqs |-> num_seqs,
      remainder |-> IF forward THEN remainder ELSE num_seqs - remainder,
      frac_counter |-> 0,
      forward |-> forward]

\* the diff_t values the constructor computes
SequenceDivider_vals(data_len, log2_num_seqs, forward) ==
  LET num_seqs == Shl(1, log2_num_seqs)
      r == CMod(data_len - 1, num_seqs)
  IN {data_len, log2_num_seqs, num_seqs, data_len - 1, r, r + 1}
     \cup (IF forward THEN {} ELSE {num_seqs - (r + 1)})

\* whether bit number b of x >= 0 is set:  x & (1 << b)
BitSet(x, b) == (x \div Pow2(b)) % 2 = 1

\* a faulty Next(): the carry bit is left in frac_counter
SequenceDivider_Next_unmasked(sd) ==
  LET fc == sd.frac_counter + sd.remainder
      carry == BitSet(fc, sd.log2_num_seqs)
  IN [sd |-> [sd EXCEPT !.frac_counter = fc, !.num_seqs = @ - 1],
      no_carry |-> IF sd.forward THEN ~carry ELSE carry]

\* SequenceDivider::Next(): the divider after the call, and the value returned
SequenceDivider_Next(sd) ==
  LET fc == sd.frac_counter + sd.remainder
      carry == BitSet(fc, sd.log2_num_seqs)
  IN [sd |-> [sd EXCEPT !.frac_counter = IF carry THEN fc - Shl(1, sd.log2_num_seqs)
                                                  ELSE fc,
                        !.num_seqs = @ - 1],
      no_carry |-> IF sd.forward THEN ~carry ELSE carry]

\* the diff_t values Next() computes
SequenceDivider_Next_vals(sd) ==
  LET r == SequenceDivider_Next(sd)
  IN {sd.frac_counter + sd.remainder, Shl(1, sd.log2_num_seqs),
      r.sd.frac_counter, r.sd.num_seqs}

\* SequenceDivider::IsEnd()
IsEnd(sd) == sd.num_seqs = 0

\* bool converted to the index type
B2I(b) == IF b THEN 1 ELSE 0

RECURSIVE MergeOneLevel_loop(_, _, _, _, _, _, _, _, _, _)

\* a faulty loop: MergeOneLevel returns after the first pair of runs
MergeOneLevel_once(v, imit, data, seq_len, seq_div, p, residual_len, has_buf, forward) ==
  [m |-> [v.m EXCEPT !.rev = FALSE],
   buf |-> IF forward THEN v.buf ELSE -v.buf,
   data |-> data]

\* MergeOneLevel after a call of MergeBlocking returned v: buf is taken from
\* rev_buf.base when backward, and the loop's test  while (!seq_div.IsEnd());
MergeOneLevel_next(v, imit, data, seq_len, seq_div, p, residual_len, has_buf, forward) ==
  IF ~IsEnd(seq_div) /\ ~v.m.wild
  THEN MergeOneLevel_loop([v.m EXCEPT !.rev = FALSE], imit,
                          IF forward THEN v.buf ELSE -v.buf,
                          data, seq_len, seq_div, p, residual_len, has_buf, forward)
  ELSE [m |-> [v.m EXCEPT !.rev = FALSE],
        buf |-> IF forward THEN v.buf ELSE -v.buf,
        data |-> data]

\* MergeOneLevel<has_buf, forward>: the loop  do {...} while (!seq_div.IsEnd());
\* a ReversedIterator of base b is the iterator -b of a machine with rev set
MergeOneLevel_loop(m, imit, buf, data, seq_len, seq_div, p, residual_len, has_buf, forward) ==
  LET l == SequenceDivider_Next(seq_div)
      r == SequenceDivider_Next(l.sd)
      lseq_decr == B2I(l.no_carry)
      rseq_decr == B2I(r.no_carry)
      merging_len == (seq_len - lseq_decr) + (seq_len - rseq_decr)
  IN MergeOneLevel_next(
       MergeBlocking(
         [Chk(m, SequenceDivider_Next_vals(seq_div)
                 \cup SequenceDivider_Next_vals(l.sd)
                 \cup {seq_len - lseq_decr, seq_len - rseq_decr, merging_len,
                       residual_len - lseq_decr, residual_len - rseq_decr}
                 \cup (IF forward THEN {} ELSE {p.num_blocks - 2}))
          EXCEPT !.rev = ~forward],
         IF forward THEN imit ELSE -(imit + p.num_blocks - 2),
         IF forward THEN buf ELSE -buf,
         IF forward THEN data ELSE -data,
         [p EXCEPT !.first_block_len = residual_len - lseq_decr,
                   !.last_block_len = residual_len - rseq_decr],
         has_buf),
       imit,
       IF forward THEN data + merging_len ELSE data - merging_len,
       seq_len, r.sd, p, residual_len, has_buf, forward)

\* MergeOneLevel<has_buf, forward>(imit, buf, data, seq_len, seq_div, p)
MergeOneLevel(m, imit, buf, data, seq_len, seq_div, p, has_buf, forward) ==
  MergeOneLevel_loop(m, imit, buf, data, seq_len, seq_div, p, p.first_block_len,
                     has_buf, forward)

\* -------------------------------------------------------- small array sorting
\* a faulty pass of OddEvenSort: the loop runs while j < len
RECURSIVE OddEvenSort_pass_over(_, _, _, _)
OddEvenSort_pass_over(m, data, len, j) ==
  IF j < len /\ ~m.wild
  THEN LET m1 == Chk(Seen(m, data + (j + 1), data + j), {j, j + 1, j + 2}) IN
       OddEvenSort_pass_over(
         IF IterComp(m, data + (j + 1), data + j, TRUE)
         THEN iter_swap(m1, data + j, data + (j + 1)) ELSE m1,
         data, len, j + 2)
  ELSE m

\* OddEvenSort<len, ..., i>: for (j = i % 2; j < len - 1; j += 2) {...}
RECURSIVE OddEvenSort_pass(_, _, _, _)
OddEvenSort_pass(m, data, len, j) ==
  IF j < len - 1 /\ ~m.wild
  THEN LET m1 == Chk(Seen(m, data + (j + 1), data + j), {j, j + 1, j + 2}) IN
       OddEvenSort_pass(
         IF IterComp(m, data + (j + 1), data + j, TRUE)
         THEN iter_swap(m1, data + j, data + (j + 1)) ELSE m1,
         data, len, j + 2)
  ELSE m

\* a faulty OddEvenSort: the last two passes are left out
RECURSIVE OddEvenSort_short(_, _, _, _)
OddEvenSort_short(m, data, len, i) ==
  IF i < len - 2
  THEN OddEvenSort_short(OddEvenSort_pass(m, data, len, i % 2), data, len, i + 1)
  ELSE m

\* OddEvenSort<len, Iterator, Comp, Proj, i>(data)
RECURSIVE OddEvenSort(_, _, _, _)
OddEvenSort(m, data, len, i) ==
  IF i < len
  THEN OddEvenSort(OddEvenSort_pass(m, data, len, i % 2), data, len, i + 1)
  ELSE m

\* a faulty dispatcher: the case label never changes
SortLeaves_next_same(k, len) == k

\* SortLeaves: the case label reached after case k read the next length len
SortLeaves_next(k, len) ==
  CASE k = 4 -> IF len = 4 THEN 4 ELSE 5
    [] k = 5 -> IF len = 4 THEN 4 ELSE IF len = 5 THEN 5 ELSE 6
    [] k = 6 -> IF len = 5 THEN 5 ELSE IF len = 6 THEN 6 ELSE 7
    [] k = 7 -> IF len = 6 THEN 6 ELSE IF len = 7 THEN 7 ELSE 8
    [] OTHER -> IF len = 7 THEN 7 ELSE 8

\* SortLeaves: the body of case Len<k>; runs lists the (data, k) sorted so far
RECURSIVE SortLeaves_case(_, _, _, _, _, _)
SortLeaves_case(m, data, seq_len, seq_div, k, runs) ==
  LET m1 == OddEvenSort(m, data, k, 0)
      runs1 == Append(runs, <<data, k>>)
  IN IF IsEnd(seq_div) \/ m1.wild
     THEN [m |-> m1, data |-> data + k, runs |-> runs1]
     ELSE LET n == SequenceDivider_Next(seq_div)
              len == seq_len - B2I(n.no_carry)
          IN SortLeaves_case(Chk(m1, SequenceDivider_Next_vals(seq_div) \cup {len}),
                             data + k, seq_len, n.sd, SortLeaves_next(k, len), runs1)

\* SortLeaves(data, seq_len, seq_div); a dispatcher value outside Len4..Len8
\* matches no case label and the loop  while (true)  never ends
SortLeaves(m, data, seq_len, seq_div) ==
  LET n == SequenceDivider_Next(seq_div)
      len == seq_len - B2I(n.no_carry)
      m1 == Chk(m, SequenceDivider_Next_vals(seq_div) \cup {len, len - 4})
  IN IF len \in 4..8
     THEN SortLeaves_case(m1, data, seq_len, n.sd, len, <<>>)
     ELSE [m |-> [m1 EXCEPT !.wild = TRUE], data |-> data, runs |-> <<>>]

\* Sort0To8(data, len)
Sort0To8(m, data, len) ==
  IF len <= 1 THEN m
  ELSE IF len <= 3
  THEN LET m1 == Seen(m, data + 1, data)
           m2 == IF IterComp(m, data + 1, data, TRUE)
                 THEN iter_swap(m1, data, data + 1) ELSE m1
       IN IF len = 2 THEN m2
          ELSE LET m3 == Seen(m2, data + 2, data + 1)
                   m4 == IF IterComp(m2, data + 2, data + 1, TRUE)
                         THEN iter_swap(m3, data + 1, data + 2) ELSE m3
                   m5 == Seen(m4, data + 1, data)
               IN IF IterComp(m4, data + 1, data, TRUE)
                  THEN iter_swap(m5, data, data + 1) ELSE m5
  ELSE SortLeaves(m, data, len, SequenceDivider(len, 0, TRUE)).m

\* HeapSort: the lambdas
HeapSort_left(i) == i * 2 + 1
HeapSort_right(i) == i * 2 + 2
HeapSort_parent(i) == CDiv(i - 1, 2)
HeapSort_parent_end(i) == CDiv(i, 2)

\* while (cur < parent(len)) { cur = iter_comp(data + l, data + r) ? r : l; }
RECURSIVE HeapSort_down(_, _, _, _)
HeapSort_down(m, data, len, cur) ==
  IF cur < HeapSort_parent(len) /\ ~m.wild
  THEN LET l == HeapSort_left(cur)
           r == HeapSort_right(cur)
       IN HeapSort_down(Chk(Seen(m, data + l, data + r), {cur * 2, l, r}), data, len,
                        IF IterComp(m, data + l, data + r, TRUE) THEN r ELSE l)
  ELSE [m |-> Chk(m, {len - 1, HeapSort_parent(len)}), cur |-> cur]

\* while (iter_comp(data + cur, data + start)) cur = parent(cur);
RECURSIVE HeapSort_up(_, _, _, _)
HeapSort_up(m, data, start, cur) ==
  IF IterComp(m, data + cur, data + start, TRUE) /\ ~m.wild
  THEN HeapSort_up(Chk(Seen(m, data + cur, data + start),
                       {cur - 1, HeapSort_parent(cur)}),
                   data, start, HeapSort_parent(cur))
  ELSE [m |-> Seen(m, data + cur, data + start), cur |-> cur]

\* while (cur > start) { iter_swap(data + cur, data + start); cur = parent(cur); }
RECURSIVE HeapSort_shift(_, _, _, _)
HeapSort_shift(m, data, start, cur) ==
  IF cur > start /\ ~m.wild
  THEN HeapSort_shift(Chk(iter_swap(m, data + cur, data + start),
                          {cur - 1, HeapSort_parent(cur)}),
                      data, start, HeapSort_parent(cur))
  ELSE m

\* the loop  while (true) {...}
RECURSIVE HeapSort_loop(_, _, _, _)
HeapSort_loop(m, data, len, start) ==
  LET d == HeapSort_down(m, data, len, start)
      cur1 == IF d.cur < HeapSort_parent_end(len) THEN HeapSort_left(d.cur) ELSE d.cur
      u == HeapSort_up(Chk(d.m, {HeapSort_parent_end(len), cur1}), data, start, cur1)
      m1 == HeapSort_shift(u.m, data, start, u.cur)
  IN IF m1.wild THEN m1
     ELSE IF start # 0 THEN HeapSort_loop(Chk(m1, {start - 1}), data, len, start - 1)
     ELSE IF len - 1 = 0 THEN Chk(m1, {len - 1})
     ELSE HeapSort_loop(iter_swap(Chk(m1, {len - 1}), data, data + (len - 1)),
                        data, len - 1, start)

\* HeapSort(data, len)
HeapSort(m, data, len) ==
  HeapSort_loop(Chk(m, {len, HeapSort_parent_end(len), HeapSort_parent_end(len) - 1}),
                data, len, HeapSort_parent_end(len) - 1)

\* ---------------------------------------------------------------- full sorting
\* CollectKeys: for (tmp = cur; tmp > inspos; --tmp) iter_swap(tmp, tmp - 1);
RECURSIVE CollectKeys_insert(_, _, _)
CollectKeys_insert(m, tmp, inspos) ==
  IF tmp > inspos /\ ~m.wild
  THEN CollectKeys_insert(iter_swap(m, tmp, tmp - 1), tmp - 1, inspos)
  ELSE m

\* CollectKeys: the body of the loop  do {...} while (...)  on the locals k
CollectKeys_body(m, k, cur_) ==
  LET b == BinarySearch(m, k.keys, k.keys_last, cur_, TRUE)
      inspos == b.pos
      isNew == inspos = k.keys_last \/ IterComp(b.m, cur_, inspos, TRUE)
      m1 == IF inspos = k.keys_last THEN b.m ELSE Seen(b.m, cur_, inspos)
      gap == cur_ - k.keys_last
      m2 == IF gap # 0 THEN Rotate(Chk(m1, {gap}), k.keys, k.keys_last, cur_)
                       ELSE Chk(m1, {gap})
      m3 == CollectKeys_insert(m2, cur_, inspos + gap)
  IN IF isNew
     THEN [m |-> Chk(m3, {k.num_desired_keys - 1}),
           k |-> [k EXCEPT !.keys = @ + gap, !.keys_last = cur_ + 1,
                           !.num_desired_keys = @ - 1]]
     ELSE [m |-> m1, k |-> k]

\* a faulty return: the collected keys are not rotated to the front
CollectKeys_finish_unrotated(m, first_, k) ==
  [m |-> Chk(m, {k.keys - first_, k.keys_last - k.keys}),
   num_keys |-> k.keys_last - k.keys]

\* CollectKeys: the rotation after the loop; num_keys is the returned value
CollectKeys_finish(m, first_, k) ==
  LET m1 == Chk(m, {k.keys - first_, k.keys_last - k.keys})
  IN [m |-> IF k.keys - first_ # 0 THEN Rotate(m1, first_, k.keys, k.keys_last) ELSE m1,
      num_keys |-> k.keys_last - k.keys]

\* a faulty loop: log2_num_seqs is never incremented
MergeSortControl_log2_stay(data_len, log2_num_seqs) == log2_num_seqs

\* MergeSortControl: while ((data_len - 1) >> (log2_num_seqs + 3)) ++log2_num_seqs;
RECURSIVE MergeSortControl_log2(_, _)
MergeSortControl_log2(data_len, log2_num_seqs) ==
  IF Shr(data_len - 1, log2_num_seqs + 3) # 0
  THEN MergeSortControl_log2(data_len, log2_num_seqs + 1)
  ELSE log2_num_seqs

\* a faulty constructor: bufferable_len = (imit_len + 2) * buf_len
MergeSortControl_wide(num_keys, data_len) ==
  LET imit_len == IF num_keys # 0 THEN CDiv(num_keys + 2, 4) * 2 - 2 ELSE 0
      buf_len == IF num_keys # 0 THEN num_keys - imit_len ELSE 0
      log2 == MergeSortControl_log2(data_len, 1)
  IN [imit_len |-> imit_len,
      buf_len |-> buf_len,
      bufferable_len |-> IF num_keys # 0 THEN (imit_len + 2) * buf_len ELSE 0,
      data_len |-> data_len,
      log2_num_seqs |-> log2,
      seq_len |-> Shr(data_len - 1, log2) + 1,
      forward |-> TRUE]

\* a faulty constructor: a key is given neither to the imitation nor to the
\* buffer
MergeSortControl_short(num_keys, data_len) ==
  LET imit_len == IF num_keys # 0 THEN CDiv(num_keys + 2, 4) * 2 - 2 ELSE 0
      buf_len == IF num_keys # 0 THEN num_keys - imit_len - 1 ELSE 0
      log2 == MergeSortControl_log2(data_len, 1)
  IN [imit_len |-> imit_len,
      buf_len |-> buf_len,
      bufferable_len |-> IF num_keys # 0 THEN CDiv(imit_len + 2, 2) * buf_len ELSE 0,
      data_len |-> data_len,
      log2_num_seqs |-> log2,
      seq_len |-> Shr(data_len - 1, log2) + 1,
      forward |-> TRUE]

\* MergeSortControl(num_keys, data_len)
MergeSortControl(num_keys, data_len) ==
  LET imit_len == IF num_keys # 0 THEN CDiv(num_keys + 2, 4) * 2 - 2 ELSE 0
      buf_len == IF num_keys # 0 THEN num_keys - imit_len ELSE 0
      log2 == MergeSortControl_log2(data_len, 1)
  IN [imit_len |-> imit_len,
      buf_len |-> buf_len,
      bufferable_len |-> IF num_keys # 0 THEN CDiv(imit_len + 2, 2) * buf_len ELSE 0,
      data_len |-> data_len,
      log2_num_seqs |-> log2,
      seq_len |-> Shr(data_len - 1, log2) + 1,
      forward |-> TRUE]

\* the index-typed values the constructor computes
MergeSortControl_vals(num_keys, data_len) ==
  LET c == MergeSortControl(num_keys, data_len) IN
  (IF num_keys # 0
   THEN {num_keys + 2, CDiv(num_keys + 2, 4), CDiv(num_keys + 2, 4) * 2, c.imit_len,
         c.buf_len, c.imit_len + 2, CDiv(c.imit_len + 2, 2), c.bufferable_len}
   ELSE {})
  \cup {data_len, data_len - 1, c.seq_len, c.seq_len - 1}
  \cup {l + 3 : l \in 1..c.log2_num_seqs} \cup (1..c.log2_num_seqs)

\* a faulty Next(): the buffer is never retired
MergeSortControl_Next_keep(ctrl) ==
  [ctrl |-> [ctrl EXCEPT !.log2_num_seqs = @ - 1,
                         !.seq_len = Shr(ctrl.data_len - 1, ctrl.log2_num_seqs - 1) + 1,
                         !.forward = IF ctrl.buf_len = 0 THEN @ ELSE ~@],
   ret |-> 0]

\* a faulty Next(): the whole buffer is absorbed, imit_len += buf_len
MergeSortControl_Next_whole(ctrl) ==
  LET log2 == ctrl.log2_num_seqs - 1
      seq_len == Shr(ctrl.data_len - 1, log2) + 1
      c1 == [ctrl EXCEPT !.log2_num_seqs = log2, !.seq_len = seq_len]
  IN IF ctrl.buf_len = 0 THEN [ctrl |-> c1, ret |-> 0]
     ELSE IF log2 = 0 \/ seq_len > ctrl.bufferable_len
     THEN [ctrl |-> [c1 EXCEPT !.forward = ~ctrl.forward,
                               !.imit_len = ctrl.imit_len + ctrl.buf_len,
                               !.buf_len = 0,
                               !.bufferable_len = 0],
           ret |-> ctrl.buf_len]
     ELSE [ctrl |-> [c1 EXCEPT !.forward = ~ctrl.forward], ret |-> 0]

\* a faulty Next(): forward is left as it is
MergeSortControl_Next_same(ctrl) ==
  LET log2 == ctrl.log2_num_seqs - 1
      seq_len == Shr(ctrl.data_len - 1, log2) + 1
      c1 == [ctrl EXCEPT !.log2_num_seqs = log2, !.seq_len = seq_len]
  IN IF ctrl.buf_len # 0 /\ (log2 = 0 \/ seq_len > ctrl.bufferable_len)
     THEN [ctrl |-> [c1 EXCEPT !.imit_len = ctrl.imit_len + CDiv(ctrl.buf_len, 2) * 2,
                               !.buf_len = 0,
                               !.bufferable_len = 0],
           ret |-> ctrl.buf_len]
     ELSE [ctrl |-> c1, ret |-> 0]

\* MergeSortControl::Next(); ret is the returned value
MergeSortControl_Next(ctrl) ==
  LET log2 == ctrl.log2_num_seqs - 1
      seq_len == Shr(ctrl.data_len - 1, log2) + 1
      c1 == [ctrl EXCEPT !.log2_num_seqs = log2, !.seq_len = seq_len]
  IN IF ctrl.buf_len = 0 THEN [ctrl |-> c1, ret |-> 0]
     ELSE IF log2 = 0 \/ seq_len > ctrl.bufferable_len
     THEN [ctrl |-> [c1 EXCEPT !.forward = ~ctrl.forward,
                               !.imit_len = ctrl.imit_len + CDiv(ctrl.buf_len, 2) * 2,
                               !.buf_len = 0,
                               !.bufferable_len = 0],
           ret |-> ctrl.buf_len]
     ELSE [ctrl |-> [c1 EXCEPT !.forward = ~ctrl.forward], ret |-> 0]

\* the index-typed values Next() computes
MergeSortControl_Next_vals(ctrl) ==
  LET n == MergeSortControl_Next(ctrl) IN
  {n.ctrl.log2_num_seqs, ctrl.data_len - 1, n.ctrl.seq_len - 1, n.ctrl.seq_len}
  \cup (IF n.ret # 0
        THEN {CDiv(ctrl.buf_len, 2), CDiv(ctrl.buf_len, 2) * 2, n.ctrl.imit_len}
        ELSE {})

\* a faulty DetermineBlocking: block_len = seq_len / (num_blocks / 2), rounded down
DetermineBlocking_floor(ctrl) ==
  LET seq_len == ctrl.seq_len
      max_num_blocks == ctrl.imit_len + 2
      limit_num_blocks == CDiv(seq_len, OverApproxSqrt(seq_len * 2)) * 2
      num_blocks == IF ctrl.buf_len # 0
                    THEN (CDiv(seq_len - 1, ctrl.buf_len) + 1) * 2
                    ELSE IF max_num_blocks < limit_num_blocks
                         THEN max_num_blocks ELSE limit_num_blocks
      block_len == CDiv(seq_len, CDiv(num_blocks, 2))
      residual_len == seq_len - block_len * (CDiv(num_blocks, 2) - 1)
  IN [num_blocks |-> num_blocks, block_len |-> block_len,
      first_block_len |-> residual_len, last_block_len |-> residual_len]

\* DetermineBlocking(ctrl)
DetermineBlocking(ctrl) ==
  LET seq_len == ctrl.seq_len
      max_num_blocks == ctrl.imit_len + 2
      limit_num_blocks == CDiv(seq_len, OverApproxSqrt(seq_len * 2)) * 2
      num_blocks == IF ctrl.buf_len # 0
                    THEN (CDiv(seq_len - 1, ctrl.buf_len) + 1) * 2
                    ELSE IF max_num_blocks < limit_num_blocks
                         THEN max_num_blocks ELSE limit_num_blocks
      block_len == CDiv(seq_len - 1, CDiv(num_blocks, 2)) + 1
      residual_len == seq_len - block_len * (CDiv(num_blocks, 2) - 1)
  IN [num_blocks |-> num_blocks, block_len |-> block_len,
      first_block_len |-> residual_len, last_block_len |-> residual_len]

\* the index-typed values DetermineBlocking computes
DetermineBlocking_vals(ctrl) ==
  LET p == DetermineBlocking(ctrl)
      seq_len == ctrl.seq_len
      h == CDiv(p.num_blocks, 2)
  IN {seq_len, ctrl.imit_len + 2, p.num_blocks, seq_len - 1, h,
      CDiv(seq_len - 1, h), p.block_len, h - 1, p.block_len * (h - 1),
      p.first_block_len}
     \cup (IF ctrl.buf_len # 0
           THEN {CDiv(seq_len - 1, ctrl.buf_len), CDiv(seq_len - 1, ctrl.buf_len) + 1}
           ELSE {seq_len * 2, CDiv(seq_len, OverApproxSqrt(seq_len * 2)),
                 CDiv(seq_len, OverApproxSqrt(seq_len * 2)) * 2}
                \cup OverApproxSqrt_vals(seq_len * 2))

\* the divisors DetermineBlocking divides by
DetermineBlocking_divs(ctrl) ==
  {CDiv(DetermineBlocking(ctrl).num_blocks, 2)}
  \cup (IF ctrl.buf_len # 0 THEN {ctrl.buf_len}
        ELSE {OverApproxSqrt(ctrl.seq_len * 2)})

\* ======================================================== the state machine
VARIABLES
  mem,       \* the memory holding the array, with Guard cells on either side
  input,     \* the memory before the call
  first,     \* argument first of Sort
  last,      \* argument last of Sort
  pc,        \* position in the routine under execution
  pending,   \* iter_swap calls of the current step not yet performed
  obs,       \* observations: lo, hi, mx, err, wild, calls of the machine so far
  len,       \* Sort: local len
  imit,      \* Sort: local imit
  num_keys,  \* Sort: local num_keys
  data,      \* Sort: local data
  ctrl,      \* Sort: local ctrl
  ck,        \* CollectKeys: locals keys, keys_last, num_desired_keys
  cur,       \* CollectKeys: local cur
  iters,     \* Sort: iterations of the level loop begun so far
  levels,    \* Sort: ctrl.log2_num_seqs right after construction
  ret,       \* Sort: the returned iterator, or -1 before the return
  args,      \* a subroutine called on its own: its arguments
  res        \* a subroutine called on its own: what it returned

vars == <<mem, input, first, last, pc, pending, obs, len, imit, num_keys, data,
          ctrl, ck, cur, iters, levels, ret, args, res>>

\* ------------------------------------------------------------ input arrays
\* longest array sorted
MaxLen == 40
\* arrays up to this length are taken with every assignment of keys 0..MaxKey
SmallLen == 4
MaxKey == 2
\* key of element i of a pattern array: c distinct keys scattered by a and b
PatternKey(i, c, a, b) == ((i * a + b) % 43) % c
Patterns == {<<2, 1>>, <<2, 11>>, <<5, 11>>, <<5, 42>>, <<9, 1>>, <<9, 11>>,
             <<9, 42>>, <<43, 1>>, <<43, 11>>, <<43, 42>>}
Shifts == {0, 3}

\* the memory holding keys k[0..n-1]: element i carries its input position
Memory(n, k) ==
  [i \in 0..(n + 2 * Guard - 1) |->
     IF i >= Guard /\ i < Guard + n THEN <<k[i - Guard], i - Guard>>
     ELSE <<1, i - Guard>>]

NoCtrl == MergeSortControl(0, 9)
NoKeys == [keys |-> 0, keys_last |-> 0, num_desired_keys |-> 0]
NoObs == [lo |-> 0, hi |-> -1, mx |-> 0, err |-> FALSE, wild |-> FALSE, calls |-> <<>>]

\* the state before a call: the array k[0..n-1] in memory, control at position
\* at, a subroutine's arguments a
InitCall(n, k, at, a) ==
  /\ mem = Memory(n, k)
  /\ input = mem
  /\ first = Guard
  /\ last = Guard + n
  /\ pc = at
  /\ pending = <<>>
  /\ obs = NoObs
  /\ len = 0 /\ imit = 0 /\ num_keys = 0 /\ data = 0
  /\ ctrl = NoCtrl
  /\ ck = NoKeys
  /\ cur = 0
  /\ iters = 0 /\ levels = 0
  /\ ret = -1
  /\ args = a
  /\ res = <<>>

InitArray(n, k) == InitCall(n, k, "Sort", <<>>)

\* a long array: one key repeated, then a tail of t elements of up to c keys
LongLen == 70
LongTail == 6
LongKey(i, t, c) == IF i < LongLen - t THEN 1 ELSE i % c

Init ==
  \/ \E n \in 0..SmallLen : \E k \in [0..(n - 1) -> 0..MaxKey] : InitArray(n, k)
  \/ \E n \in (SmallLen + 1)..MaxLen : \E pt \in Patterns : \E b \in Shifts :
       InitArray(n, [i \in 0..(n - 1) |-> PatternKey(i, pt[1], pt[2], b)])
  \/ \E t \in 1..LongTail : \E c \in 2..3 :
       InitArray(LongLen, [i \in 0..(LongLen - 1) |-> LongKey(i, t, c)])

\* the machine a step starts from
Machine ==
  [a |-> mem, rev |-> FALSE, log |-> <<>>, lo |-> obs.lo, hi |-> obs.hi,
   mx |-> obs.mx, err |-> obs.err, wild |-> obs.wild, calls |-> <<>>]

\* a step leaves machine m: its swaps are yet to be performed on mem
Leave(m) ==
  /\ pending' = m.log
  /\ obs' = [lo |-> m.lo, hi |-> m.hi, mx |-> m.mx, err |-> m.err, wild |-> m.wild,
             calls |-> m.calls]
  /\ mem' = mem

\* iter_swap: one exchange of the current step is performed
ApplySwap ==
  /\ pending # <<>>
  /\ LET e == Head(pending) IN
       mem' = [mem EXCEPT ![e[1]] = e[3], ![e[2]] = e[4]]
  /\ pending' = Tail(pending)
  /\ UNCHANGED <<args, res, ck, cur, input, first, last, pc, obs, len, imit,
                 num_keys, data, ctrl,
                 iters, levels, ret>>

\* the machine after divisions or modulos by the members of S
ChkDivs(m, S) == [m EXCEPT !.err = @ \/ \E d \in S : d <= 0]

\* ------------------------------------------------------------------ Sort
\* a faulty loop: a single iter_swap(--back_data, --back_buf)
Sort_retire_once(m, back_data, back_buf, buf) ==
  iter_swap(m, back_data - 1, back_buf - 1)

\* Sort: the loop  do { iter_swap(--back_data, --back_buf); } while (back_data != buf);
RECURSIVE Sort_retire(_, _, _, _)
Sort_retire(m, back_data, back_buf, buf) ==
  LET m1 == iter_swap(m, back_data - 1, back_buf - 1) IN
  IF back_data - 1 # buf /\ ~m1.wild
  THEN Sort_retire(m1, back_data - 1, back_buf - 1, buf)
  ELSE m1

\* Sort: len <= 8
Sort_small ==
  /\ pc = "Sort" /\ last - first <= 8
  /\ Leave(Sort0To8(Chk(Machine, {last - first}), first, last - first))
  /\ len' = last - first
  /\ pc' = "Return"
  /\ UNCHANGED <<args, res, ck, cur, input, first, last, imit, num_keys, data, ctrl,
                 iters, levels, ret>>

\* Sort: 8 < len <= 16, no key is collected
Sort_nokeys ==
  /\ pc = "Sort" /\ last - first > 8 /\ last - first <= 16
  /\ Leave(Chk(Machine, {last - first}))
  /\ len' = last - first
  /\ imit' = first
  /\ num_keys' = 0
  /\ pc' = "Leaves"
  /\ UNCHANGED <<args, res, ck, cur, input, first, last, data, ctrl, iters, levels,
                 ret>>

\* Sort: len > 16, CollectKeys is called; CollectKeys up to its loop
Sort_collect ==
  /\ pc = "Sort" /\ last - first > 16
  /\ LET len0 == last - first
         r == OverApproxSqrt(len0)
         num_desired_keys == 2 * r - 2
     IN /\ Leave(ChkDivs(Chk(Machine, {len0, 2 * r, num_desired_keys,
                                       num_desired_keys - 1}
                                      \cup OverApproxSqrt_vals(len0)),
                         {OverApproxSqrt_r0(len0)}))
        /\ ck' = [keys |-> first, keys_last |-> first + 1,
                  num_desired_keys |-> num_desired_keys - 1]
        /\ cur' = first + 1
        /\ len' = len0
  /\ pc' = "CollectKeys"
  /\ UNCHANGED <<args, res, input, first, last, imit, num_keys, data, ctrl, iters,
                 levels, ret>>

\* CollectKeys: one iteration of  do {...} while (num_desired_keys && ++cur < last);
CollectKeys_iterate ==
  /\ pc = "CollectKeys" /\ pending = <<>> /\ ~obs.wild
  /\ LET b == CollectKeys_body(Machine, ck, cur)
         again == b.k.num_desired_keys # 0 /\ cur + 1 < last
     IN /\ Leave(b.m)
        /\ ck' = b.k
        /\ cur' = IF b.k.num_desired_keys # 0 THEN cur + 1 ELSE cur
        /\ pc' = IF again THEN "CollectKeys" ELSE "Collected"
  /\ UNCHANGED <<args, res, input, first, last, len, imit, num_keys, data, ctrl,
                 iters, levels, ret>>

\* a faulty Sort: with fewer than 8 keys, num_keys is cleared but imit and
\* len stay
Sort_collected_stay ==
  /\ pc = "Collected" /\ pending = <<>> /\ ~obs.wild
  /\ LET f == CollectKeys_finish(Machine, first, ck)
     IN /\ imit' = first
        /\ len' = len
        /\ num_keys' = IF f.num_keys < 8 THEN 0 ELSE f.num_keys
        /\ Leave(f.m)
  /\ pc' = "Leaves"
  /\ UNCHANGED <<args, res, ck, cur, input, first, last, data, ctrl, iters, levels,
                 ret>>

\* CollectKeys returns; Sort gives up the keys if they are fewer than 8
Sort_collected ==
  /\ pc = "Collected" /\ pending = <<>> /\ ~obs.wild
  /\ LET f == CollectKeys_finish(Machine, first, ck)
     IN IF f.num_keys < 8
        THEN /\ imit' = first + f.num_keys
             /\ len' = len - f.num_keys
             /\ num_keys' = 0
             /\ Leave(Chk(f.m, {len - f.num_keys}))
        ELSE /\ imit' = first
             /\ len' = len
             /\ num_keys' = f.num_keys
             /\ Leave(f.m)
  /\ pc' = "Leaves"
  /\ UNCHANGED <<args, res, ck, cur, input, first, last, data, ctrl, iters, levels,
                 ret>>

\* Sort: ctrl is constructed and the leaves are sorted
Sort_leaves ==
  /\ pc = "Leaves" /\ pending = <<>> /\ ~obs.wild
  /\ LET data_len == len - num_keys
         c == MergeSortControl(num_keys, data_len)
         m0 == Chk(Machine, MergeSortControl_vals(num_keys, data_len)
                            \cup SequenceDivider_vals(c.data_len, c.log2_num_seqs, TRUE))
     IN /\ ctrl' = c
        /\ data' = imit + num_keys
        /\ levels' = c.log2_num_seqs
        /\ Leave(SortLeaves(m0, imit + num_keys, c.seq_len,
                            SequenceDivider(c.data_len, c.log2_num_seqs, TRUE)).m)
  /\ pc' = "Level"
  /\ UNCHANGED <<args, res, ck, cur, input, first, last, len, imit, num_keys, iters,
                 ret>>

\* Sort: the body of the level loop up to the call of ctrl.Next()
Sort_level ==
  /\ pc = "Level" /\ pending = <<>> /\ ~obs.wild
  /\ LET has_buf == ctrl.buf_len # 0
         forward == ~has_buf \/ ctrl.forward
     IN Leave(MergeOneLevel(
                ChkDivs(Chk(Machine,
                            DetermineBlocking_vals(ctrl)
                            \cup SequenceDivider_vals(ctrl.data_len,
                                                      ctrl.log2_num_seqs, forward)),
                        DetermineBlocking_divs(ctrl)),
                imit,
                IF forward THEN imit + ctrl.imit_len ELSE last,
                IF forward THEN data ELSE last - ctrl.buf_len,
                ctrl.seq_len,
                SequenceDivider(ctrl.data_len, ctrl.log2_num_seqs, forward),
                DetermineBlocking(ctrl), has_buf, forward).m)
  /\ iters' = iters + 1
  /\ pc' = "Next"
  /\ UNCHANGED <<args, res, ck, cur, input, first, last, len, imit, num_keys, data,
                 ctrl, levels, ret>>

\* Sort: ctrl.Next(), the retirement of the buffer, and the loop condition
Sort_next ==
  /\ pc = "Next" /\ pending = <<>> /\ ~obs.wild
  /\ LET n == MergeSortControl_Next(ctrl)
         m0 == Chk(Machine, MergeSortControl_Next_vals(ctrl))
         old_buf_len == n.ret
         buf == data - old_buf_len
     IN /\ IF old_buf_len # 0
           THEN /\ Leave(HeapSort(IF ~n.ctrl.forward
                                  THEN Sort_retire(m0, last - old_buf_len, last, buf)
                                  ELSE m0,
                                  buf, old_buf_len))
                /\ ctrl' = [n.ctrl EXCEPT !.forward = TRUE]
           ELSE /\ Leave(m0)
                /\ ctrl' = n.ctrl
        /\ pc' = IF n.ctrl.log2_num_seqs # 0 THEN "Level" ELSE "Final"
  /\ UNCHANGED <<args, res, ck, cur, input, first, last, len, imit, num_keys, data,
                 iters, levels, ret>>

\* Sort: the collected keys are merged with the sorted data
Sort_final ==
  /\ pc = "Final" /\ pending = <<>> /\ ~obs.wild
  /\ Leave(IF first # data
           THEN MergeWithoutBuf(Machine, first, data, last, FALSE).m
           ELSE Machine)
  /\ pc' = "Return"
  /\ UNCHANGED <<args, res, ck, cur, input, first, last, len, imit, num_keys, data,
                 ctrl, iters, levels, ret>>

\* a faulty return: first is returned
Sort_return_first ==
  /\ pc = "Return" /\ pending = <<>> /\ ~obs.wild
  /\ ret' = first
  /\ pc' = "Done"
  /\ UNCHANGED <<args, res, ck, cur, mem, input, first, last, pending, obs, len,
                 imit, num_keys,
                 data, ctrl, iters, levels>>

\* Sort: return last
Sort_return ==
  /\ pc = "Return" /\ pending = <<>> /\ ~obs.wild
  /\ ret' = last
  /\ pc' = "Done"
  /\ UNCHANGED <<args, res, ck, cur, mem, input, first, last, pending, obs, len,
                 imit, num_keys, data,
                 ctrl, iters, levels>>

Next ==
  \/ Sort_small
  \/ Sort_nokeys
  \/ Sort_collect
  \/ CollectKeys_iterate
  \/ Sort_collected
  \/ Sort_leaves
  \/ Sort_level
  \/ Sort_next
  \/ Sort_final
  \/ Sort_return
  \/ ApplySwap

Spec == Init /\ [][Next]_vars

\* --------------------------------------------------------- what is sorted
\* the array [first, last) of memory a, as a sequence
ArrayOf(a) == [i \in 1..(last - first) |-> a[first + i - 1]]
\* total order of keys
Ordered(s) == \A i \in 1..(Len(s) - 1) : ~Less(s[i + 1], s[i])
\* equal keys in the order of their input positions
Stable(s) == \A i \in 1..(Len(s) - 1) :
               ~Less(s[i], s[i + 1]) => Tag(s[i]) < Tag(s[i + 1])
\* s and t hold the same elements (elements are distinct by their tags)
Permutation(s, t) ==
  /\ Len(s) = Len(t)
  /\ {s[i] : i \in 1..Len(s)} = {t[i] : i \in 1..Len(t)}
  /\ Cardinality({s[i] : i \in 1..Len(s)}) = Len(s)

\* the positions of Sort
Positions == {"Sort", "CollectKeys", "Collected", "Leaves", "Level", "Next", "Final", "Return", "Done"}

\* the program is at a position it can leave (no swap pending, no undefined
\* behaviour so far) and moves to another position
Advance ==
  /\ pc # "Done" /\ pending = <<>> /\ ~obs.wild
  /\ pc' \in Positions
  /\ cur' \in {cur, cur + 1, first + 1}

\* the sequential program keeps running until it returns: a pending swap is
\* eventually performed, and a position that can be left is eventually left
\* (or, inside the loop of CollectKeys, cur is eventually advanced)
FairSpec == Spec /\ WF_vars(ApplySwap) /\ WF_<<pc, cur>>(Advance)

\* ------------------------------------------------------- properties of Sort
\* C1: when sort returns, no adjacent pair of [first, last) is out of order,
\* whichever path was taken (len <= 8, 8 < len <= 16, fewer than 8 keys
\* collected, buffered levels).
SortTotalOrder == pc = "Done" => ~obs.wild /\ Ordered(ArrayOf(mem))

\* a buffered sort of an unordered array with a forward and a backward level
SortTotalOrder_reached ==
  /\ pc = "Done" /\ num_keys >= 8 /\ levels >= 2
  /\ ~Ordered(ArrayOf(input))

\* C2: sort is stable: the output holds the input's elements ordered by key,
\* elements of equivalent keys in the order of their input positions; this
\* includes the collected keys merged back by MergeWithoutBuf(first, data, last).
SortStable ==
  pc = "Done" => /\ ~obs.wild
                 /\ Permutation(ArrayOf(mem), ArrayOf(input))
                 /\ Ordered(ArrayOf(mem))
                 /\ Stable(ArrayOf(mem))

\* keys were collected and merged back, and some equivalent elements exist
SortStable_reached ==
  /\ pc = "Done" /\ first # data
  /\ \E i, j \in first..(last - 1) : i # j /\ Key(mem[i]) = Key(mem[j])
  /\ ArrayOf(mem) # ArrayOf(input)

\* C3: every change of the memory exchanges two positions, and in every
\* state the array is a permutation of the input.
SortSwapsOnly ==
  /\ [](Permutation(ArrayOf(mem), ArrayOf(input)))
  /\ [][\E i, j \in DOMAIN mem :
          mem' = [mem EXCEPT ![i] = mem[j], ![j] = mem[i]]]_mem

\* a state in the middle of a merge level: some swaps done, some to come
SortSwapsOnly_reached ==
  /\ pc = "Next" /\ pending # <<>>
  /\ mem # input

\* C4: every position compared or swapped lies in [first, last), and the
\* memory outside [first, last) is never changed.
SortInRange ==
  /\ ~obs.wild
  /\ obs.lo <= obs.hi => first <= obs.lo /\ obs.hi < last
  /\ \A i \in DOMAIN mem : (i < first \/ i >= last) => mem[i] = input[i]

\* a finished sort that accessed both ends of the array
SortInRange_reached ==
  /\ pc = "Done" /\ last - first > 16
  /\ obs.lo = first /\ obs.hi = last - 1

\* C5: every value computed in the index type has absolute value at most
\* max(n, 16), and no division or modulo by a non-positive value occurs.
SortNoOverflow ==
  /\ ~obs.err
  /\ obs.mx <= (IF last - first > 16 THEN last - first ELSE 16)

\* a finished buffered sort; the length itself attains the bound
SortNoOverflow_reached ==
  /\ pc = "Done" /\ num_keys >= 8
  /\ obs.mx = last - first

\* C6: sort terminates and returns last, and the level loop runs exactly as
\* many iterations as ctrl.log2_num_seqs after construction.
SortTerminates ==
  /\ <>(pc = "Done")
  /\ [](pc = "Done" => ret = last /\ (len > 8 => iters = levels))

\* a sort that returned after three levels
SortTerminates_reached ==
  /\ pc = "Done" /\ ret = last /\ iters = 3

\* ============================================ the basic merges on their own
\* longest xs and longest ys merged
MaxRun == 3
\* longest buffer in front of xs
MaxBuf == 3

\* the locals of Sort, which a subroutine called on its own leaves alone
sortVars == <<len, imit, num_keys, data, ctrl, ck, cur, iters, levels, ret>>

\* the slice [i, j) of memory a
Sub(a, i, j) == [k \in 1..(j - i) |-> a[i + k - 1]]

\* keys k[0..n-1] in non-descending order
Ascending(k, n) == \A i \in 0..(n - 2) : k[i] <= k[i + 1]

\* a buffer of b elements (none for MergeWithoutBuf), then sorted xs of nx and
\* sorted ys of ny elements; ys is no longer than a buffer
MergeInit ==
  \E b \in 0..MaxBuf, nx \in 1..MaxRun, ny \in 1..MaxRun, f \in BOOLEAN :
    \E kx \in [0..(nx - 1) -> 0..MaxKey], ky \in [0..(ny - 1) -> 0..MaxKey] :
      /\ Ascending(kx, nx) /\ Ascending(ky, ny)
      /\ b # 0 => ny <= b
      /\ InitCall(b + nx + ny,
                  [i \in 0..(b + nx + ny - 1) |->
                     IF i < b THEN 0 ELSE IF i < b + nx THEN kx[i - b]
                     ELSE ky[i - b - nx]],
                  IF b # 0 THEN "MergeWithBuf" ELSE "MergeWithoutBuf",
                  [buf |-> Guard, xs |-> Guard + b, ys |-> Guard + b + nx,
                   ys_last |-> Guard + b + nx + ny, is_xs_from_right |-> f])

\* a subroutine called on its own returns r, leaving machine m
Return(m, r) ==
  /\ mem' = m.a
  /\ pending' = <<>>
  /\ obs' = [lo |-> m.lo, hi |-> m.hi, mx |-> m.mx, err |-> m.err, wild |-> m.wild,
             calls |-> m.calls]
  /\ res' = r
  /\ pc' = "Returned"
  /\ UNCHANGED <<input, first, last, args, sortVars>>

\* MergeWithBuf<is_xs_from_right>(buf, xs, ys, ys_last) is called
MergeWithBuf_call ==
  /\ pc = "MergeWithBuf"
  /\ LET r == MergeWithBuf(Machine, args.buf, args.xs, args.ys, args.ys_last,
                           args.is_xs_from_right)
     IN Return(r.m, [xs_consumed |-> r.xs_consumed, rest |-> r.rest, buf |-> r.buf])

\* MergeWithoutBuf<is_xs_from_right>(xs, ys, ys_last) is called
MergeWithoutBuf_call ==
  /\ pc = "MergeWithoutBuf"
  /\ LET r == MergeWithoutBuf(Machine, args.xs, args.ys, args.ys_last,
                              args.is_xs_from_right)
     IN Return(r.m, [xs_consumed |-> r.xs_consumed, rest |-> r.rest])

MergeNext ==
  \/ MergeWithBuf_call
  \/ MergeWithoutBuf_call

MergeSpec == MergeInit /\ [][MergeNext]_vars

\* the subroutine called on its own has returned
Returned == pc = "Returned"

\* the naive merge of sequences xs and ys, one element at a time, up to the
\* moment one of them is exhausted
RECURSIVE NaiveMerge(_, _, _, _)
NaiveMerge(xs, ys, merged, is_xs_from_right) ==
  IF xs # <<>> /\ ys # <<>>
  THEN IF IterComp_call(Head(xs), Head(ys), FALSE, is_xs_from_right)
       THEN NaiveMerge(Tail(xs), ys, Append(merged, Head(xs)), is_xs_from_right)
       ELSE NaiveMerge(xs, Tail(ys), Append(merged, Head(ys)), is_xs_from_right)
  ELSE [merged |-> merged, rest |-> xs \o ys, xs_consumed |-> xs = <<>>]

\* ------------------------------------------- properties of the basic merges
\* C9: under buf < xs < ys < ys_last, ys_last - ys <= xs - buf, xs and ys
\* sorted, MergeWithBuf writes from the old buf on the naive merge of xs and ys
\* up to the exhaustion of one side; rest - buf is the old xs - buf, the
\* buffer elements lie in [buf, rest), the remainder lies in [rest, ys_last)
\* in its order, xs < rest < ys_last, and xs_consumed tells that the
\* remainder comes from ys.
MergeWithBufPost ==
  (Returned /\ "buf" \in DOMAIN res) =>
    LET n == NaiveMerge(Sub(input, args.xs, args.ys),
                        Sub(input, args.ys, args.ys_last), <<>>,
                        args.is_xs_from_right)
    IN /\ ~obs.wild
       /\ res.buf = args.buf + Len(n.merged)
       /\ Sub(mem, args.buf, res.buf) = n.merged
       /\ res.rest - res.buf = args.xs - args.buf
       /\ Permutation(Sub(mem, res.buf, res.rest), Sub(input, args.buf, args.xs))
       /\ Sub(mem, res.rest, args.ys_last) = n.rest
       /\ args.xs < res.rest /\ res.rest < args.ys_last
       /\ res.xs_consumed = n.xs_consumed
       /\ res.xs_consumed <=>
            \A i \in res.rest..(args.ys_last - 1) : Tag(mem[i]) + Guard >= args.ys

\* ys was exhausted first and the rest of xs was moved next to ys_last
MergeWithBufPost_reached ==
  /\ Returned /\ "buf" \in DOMAIN res
  /\ ~res.xs_consumed
  /\ args.ys_last - res.rest >= 2
  /\ args.ys_last - args.ys >= 2

\* the element e of the input belongs to xs
FromXs(e) == Tag(e) + Guard >= args.xs /\ Tag(e) + Guard < args.ys

\* what a basic merge has emitted and left, in order
Emitted ==
  IF "buf" \in DOMAIN res
  THEN Sub(mem, args.buf, res.buf) \o Sub(mem, res.rest, args.ys_last)
  ELSE Sub(mem, args.xs, args.ys_last)

\* C10: in MergeWithBuf and in MergeWithoutBuf, of an element of xs and an
\* element of ys that are equivalent, the one of xs comes first when
\* is_xs_from_right is false and the one of ys when it is true.
MergeTieBreak ==
  Returned =>
    \A i, j \in 1..Len(Emitted) :
      (/\ i < j
       /\ Key(Emitted[i]) = Key(Emitted[j])
       /\ FromXs(Emitted[i]) # FromXs(Emitted[j]))
      => (FromXs(Emitted[i]) <=> ~args.is_xs_from_right)

\* a merge with a buffer where ys wins a tie met by the cross merge
MergeTieBreak_reached ==
  /\ Returned /\ "buf" \in DOMAIN res
  /\ args.is_xs_from_right
  /\ args.ys - args.xs >= 3 /\ args.ys_last - args.ys >= 3
  /\ \E i \in args.xs..(args.ys - 1), j \in args.ys..(args.ys_last - 1) :
       Key(input[i]) = Key(input[j])

\* C11: for adjacent sorted non-empty xs and ys, MergeWithoutBuf leaves in
\* [xs, ys_last) the naive merge of xs and ys followed by the remainder (the
\* stable merge, when xs is the left side), touches nothing outside, and
\* returns xs_consumed and rest as the naive two-pointer merge gives them.
MergeWithoutBufPost ==
  (Returned /\ "buf" \notin DOMAIN res) =>
    LET n == NaiveMerge(Sub(input, args.xs, args.ys),
                        Sub(input, args.ys, args.ys_last), <<>>,
                        args.is_xs_from_right)
    IN /\ ~obs.wild
       /\ obs.lo >= args.xs /\ obs.hi < args.ys_last
       /\ Sub(mem, args.xs, args.ys_last) = n.merged \o n.rest
       /\ Ordered(Sub(mem, args.xs, args.ys_last))
       /\ ~args.is_xs_from_right => Stable(Sub(mem, args.xs, args.ys_last))
       /\ res.xs_consumed = n.xs_consumed
       /\ res.rest = args.xs + Len(n.merged)
       /\ args.xs < res.rest /\ res.rest < args.ys_last

\* an in-place merge of three and three elements that rotated more than
\* once and exhausted ys first
MergeWithoutBufPost_reached ==
  /\ Returned /\ "buf" \notin DOMAIN res
  /\ ~res.xs_consumed
  /\ args.ys - args.xs >= 3 /\ args.ys_last - args.ys >= 3
  /\ Key(input[args.xs]) > Key(input[args.ys])
  /\ Key(input[args.xs]) <= Key(input[args.ys_last - 1])
  /\ Key(input[args.ys - 1]) > Key(input[args.ys_last - 1])

\* ================================================ MergeBlocking on its own
\* most blocks two runs are cut into
MaxBlocks == 6
\* longest block
MaxBlockLen == 2
\* BlockingParam: an even number of blocks, interior blocks of block_len, a
\* first and a last block of 1..block_len elements
Blockings ==
  {q \in [num_blocks : 2..MaxBlocks, block_len : 1..MaxBlockLen,
          first_block_len : 1..MaxBlockLen, last_block_len : 1..MaxBlockLen] :
     /\ q.num_blocks % 2 = 0
     /\ q.first_block_len <= q.block_len
     /\ q.last_block_len <= q.block_len}

\* the length of the left run (side = 0) or the right run (side = 1) cut by q
RunLen(q, side) ==
  CDiv(q.num_blocks - 2, 2) * q.block_len
  + (IF side = 0 THEN q.first_block_len ELSE q.last_block_len)

\* the key at offset i of a sorted run of keys 0, 1, 2 that has c1 elements
\* of key 0 and c2 elements of keys 0 and 1
RunKey(c1, c2, i) == IF i < c1 THEN 0 ELSE IF i < c2 THEN 1 ELSE 2

\* num_blocks - 2 ascending keys, a buffer of b elements, and two sorted runs
\* given by cl and cr: the key of the element at offset i
BlockingKey(q, b, cl, cr, i) ==
  IF i < q.num_blocks - 2 THEN i
  ELSE IF i < q.num_blocks - 2 + b THEN 0
  ELSE IF i < q.num_blocks - 2 + b + RunLen(q, 0)
  THEN RunKey(cl[1], cl[2], i - (q.num_blocks - 2 + b))
  ELSE RunKey(cr[1], cr[2], i - (q.num_blocks - 2 + b + RunLen(q, 0)))

\* the imitation keys, a buffer of block_len elements if has_buf, and the runs
BlockingInit ==
  \E q \in Blockings, has_buf \in BOOLEAN :
    \E cl \in (0..RunLen(q, 0)) \X (0..RunLen(q, 0)),
       cr \in (0..RunLen(q, 1)) \X (0..RunLen(q, 1)) :
      LET b == IF has_buf THEN q.block_len ELSE 0
          n == q.num_blocks - 2 + b + RunLen(q, 0) + RunLen(q, 1)
      IN /\ cl[1] <= cl[2] /\ cr[1] <= cr[2]
         /\ InitCall(n, [i \in 0..(n - 1) |-> BlockingKey(q, b, cl, cr, i)],
                     "MergeBlocking",
                     [imit |-> Guard, buf |-> Guard + q.num_blocks - 2,
                      blocks |-> Guard + q.num_blocks - 2 + b, p |-> q,
                      has_buf |-> has_buf])

\* MergeBlocking<true>(imit, buf, blocks, p) is called
MergeBlocking_buffered ==
  /\ pc = "MergeBlocking" /\ args.has_buf
  /\ LET r == MergeBlocking(Machine, args.imit, args.buf, args.blocks, args.p, TRUE)
     IN Return(r.m, [buf |-> r.buf])

\* MergeBlocking<false>(imit, buf, blocks, p) is called
MergeBlocking_inplace ==
  /\ pc = "MergeBlocking" /\ ~args.has_buf
  /\ LET r == MergeBlocking(Machine, args.imit, args.buf, args.blocks, args.p, FALSE)
     IN Return(r.m, [buf |-> r.buf])

BlockingNext ==
  \/ MergeBlocking_buffered
  \/ MergeBlocking_inplace

BlockingSpec == BlockingInit /\ [][BlockingNext]_vars

\* --------------------------------------------- properties of MergeBlocking
\* the two runs replaced by their stable merge, the imitation keys ascending
\* as before, and with a buffer: merged data from the old buf on, buf advanced
\* by the merged length, the buffer's elements right after the merged data
MergeBlockingPost ==
  LET merged_len == RunLen(args.p, 0) + RunLen(args.p, 1)
      out == IF args.has_buf THEN args.buf ELSE args.blocks
  IN /\ ~obs.wild
     /\ Permutation(Sub(mem, out, out + merged_len),
                    Sub(input, args.blocks, args.blocks + merged_len))
     /\ Ordered(Sub(mem, out, out + merged_len))
     /\ Stable(Sub(mem, out, out + merged_len))
     /\ Sub(mem, args.imit, args.imit + args.p.num_blocks - 2)
        = Sub(input, args.imit, args.imit + args.p.num_blocks - 2)
     /\ args.has_buf =>
          /\ res.buf = args.buf + merged_len
          /\ Permutation(Sub(mem, res.buf, last), Sub(input, args.buf, args.blocks))

\* C8 as stated: for every blocking with an even num_blocks >= 2 and a first
\* and last block of 1..block_len elements, MergeBlocking leaves the stable
\* merge, the keys in order and the buffer right after the merged data.
MergeBlockingAnyBlockLen == Returned => MergeBlockingPost

\* C8 with the condition MergeAdjacentBlocks relies on (block_len >= 2):
\* MergeBlocking leaves the stable merge of the two runs, the imitation keys
\* in ascending order again, and with a buffer, buf advanced by the merged
\* length and the buffer's elements right after the merged data.
MergeBlockingStable == (Returned /\ args.p.block_len >= 2) => MergeBlockingPost

\* a buffered merge of four or more blocks of two or more elements, with a
\* key in both runs, has moved the data
MergeBlockingStable_reached ==
  /\ Returned /\ args.has_buf
  /\ args.p.block_len >= 2 /\ args.p.num_blocks >= 4
  /\ mem # input
  /\ \E i \in args.blocks..(args.blocks + RunLen(args.p, 0) - 1),
        j \in (args.blocks + RunLen(args.p, 0))..(last - 1) :
       input[i][1] = input[j][1]

\* ================================================ MergeOneLevel on its own
\* most blocks a pair of runs is cut into
LevelBlocks == 4
\* longest block, and the length of the buffer
LevelBlockLen == 2
\* the numbers k of a level of 2^k runs
LevelLogs == 1..2

\* the lengths of the runs a divider hands out, in the order of its calls
RECURSIVE SeqLens(_, _)
SeqLens(sd, seq_len) ==
  IF IsEnd(sd) THEN <<>>
  ELSE <<seq_len - B2I(SequenceDivider_Next(sd).no_carry)>>
       \o SeqLens(SequenceDivider_Next(sd).sd, seq_len)

\* the sum of the first j lengths
RECURSIVE LenSum(_, _)
LenSum(lens, j) == IF j = 0 THEN 0 ELSE LenSum(lens, j - 1) + lens[j]

\* sorted runs of the lengths lens, run r having c[r] elements of key 0 and
\* then elements of key 1
RECURSIVE RunsKeys(_, _, _)
RunsKeys(lens, c, r) ==
  IF r > Len(lens) THEN <<>>
  ELSE [i \in 1..lens[r] |-> IF i <= c[r] THEN 0 ELSE 1] \o RunsKeys(lens, c, r + 1)

\* the keys of the array: imit_len ascending keys, the buffer before the
\* runs when forward and after them when backward
LevelKeys(imit_len, buf_len, runs, forward) ==
  [i \in 1..imit_len |-> i - 1]
  \o (IF forward THEN [i \in 1..buf_len |-> 0] \o runs
                 ELSE runs \o [i \in 1..buf_len |-> 0])

\* the blockings of a level: blocks of two or more elements, the first and
\* the last block of one length
LevelBlockings ==
  {q \in Blockings : /\ q.num_blocks <= LevelBlocks
                     /\ q.block_len >= 2 /\ q.block_len <= LevelBlockLen
                     /\ q.first_block_len = q.last_block_len}

\* the length of a run that q cuts into num_blocks / 2 blocks
LevelSeqLen(q) == CDiv(q.num_blocks - 2, 2) * q.block_len + q.first_block_len

\* the call of MergeOneLevel<true, forward> on an array of the keys keys:
\* a level of 2^k runs of data_len elements cut by q, with a buffer of
\* block_len elements
LevelCall(q, k, data_len, keys, forward) ==
  InitCall(Len(keys), [i \in 0..(Len(keys) - 1) |-> keys[i + 1]], "MergeOneLevel",
           [imit |-> Guard,
            buf |-> IF forward THEN Guard + q.num_blocks - 2 ELSE Guard + Len(keys),
            data |-> IF forward THEN Guard + q.num_blocks - 2 + q.block_len
                                ELSE Guard + Len(keys) - q.block_len,
            seq_len |-> LevelSeqLen(q), data_len |-> data_len,
            log2_num_seqs |-> k, p |-> q, forward |-> forward])

\* the levels whose runs have the lengths lens: no run is empty, and a run
\* one element shorter leaves a first or last block of one element or more
LevelRuns(q, k, data_len, lens, forward) ==
  /\ LevelSeqLen(q) = CDiv(data_len - 1, Pow2(k)) + 1
  /\ \A r \in 1..Len(lens) : lens[r] >= 1
  /\ data_len < LevelSeqLen(q) * Pow2(k) => q.first_block_len >= 2
  /\ \E c \in [1..Pow2(k) -> 0..LevelSeqLen(q)] :
       /\ \A r \in 1..Len(lens) : c[r] <= lens[r]
       /\ LevelCall(q, k, data_len,
                    LevelKeys(q.num_blocks - 2, q.block_len, RunsKeys(lens, c, 1),
                              forward),
                    forward)

LevelInit ==
  \E q \in LevelBlockings, k \in LevelLogs, forward \in BOOLEAN :
    \E data_len \in ((LevelSeqLen(q) - 1) * Pow2(k) + 1)..(LevelSeqLen(q) * Pow2(k)) :
      LevelRuns(q, k, data_len,
                SeqLens(SequenceDivider(data_len, k, TRUE), LevelSeqLen(q)), forward)

\* MergeOneLevel<true, true>(imit, buf, data, seq_len, seq_div, p) is called
MergeOneLevel_forward ==
  /\ pc = "MergeOneLevel" /\ args.forward
  /\ LET r == MergeOneLevel(Machine, args.imit, args.buf, args.data, args.seq_len,
                            SequenceDivider(args.data_len, args.log2_num_seqs, TRUE),
                            args.p, TRUE, TRUE)
     IN Return(r.m, [buf |-> r.buf, data |-> r.data])

\* MergeOneLevel<true, false>(imit, buf, data, seq_len, seq_div, p) is called
MergeOneLevel_backward ==
  /\ pc = "MergeOneLevel" /\ ~args.forward
  /\ LET r == MergeOneLevel(Machine, args.imit, args.buf, args.data, args.seq_len,
                            SequenceDivider(args.data_len, args.log2_num_seqs, FALSE),
                            args.p, TRUE, FALSE)
     IN Return(r.m, [buf |-> r.buf, data |-> r.data])

LevelNext ==
  \/ MergeOneLevel_forward
  \/ MergeOneLevel_backward

LevelSpec == LevelInit /\ [][LevelNext]_vars

\* --------------------------------------------- properties of MergeOneLevel
\* C7: MergeOneLevel<true,true> and <true,false> replace every adjacent pair
\* of runs by its stable merge, the payload shifted by the length of the
\* buffer (to the left when forward, to the right when backward); the
\* imitation is unchanged and the buffer slice holds the buffer's elements.
MergeOneLevelPost ==
  LET lens == SeqLens(SequenceDivider(args.data_len, args.log2_num_seqs, TRUE),
                      args.seq_len)
      from == IF args.forward THEN args.data ELSE args.data - args.data_len
      to == IF args.forward THEN args.buf ELSE from + args.p.block_len
      buf_from == IF args.forward THEN args.buf ELSE args.data
      buf_to == IF args.forward THEN args.buf + args.data_len ELSE from
  IN Returned =>
       /\ ~obs.wild
       /\ \A j \in 1..Pow2(args.log2_num_seqs - 1) :
            LET off == LenSum(lens, 2 * j - 2)
                pl == lens[2 * j - 1] + lens[2 * j]
                out == Sub(mem, to + off, to + off + pl)
            IN /\ Permutation(out, Sub(input, from + off, from + off + pl))
               /\ Ordered(out) /\ Stable(out)
       /\ Sub(mem, args.imit, args.imit + args.p.num_blocks - 2)
          = Sub(input, args.imit, args.imit + args.p.num_blocks - 2)
       /\ Permutation(Sub(mem, buf_to, buf_to + args.p.block_len),
                      Sub(input, buf_from, buf_from + args.p.block_len))

\* a backward level of four runs, not all of one length, cut into four
\* blocks a pair, has moved the data
MergeOneLevelPost_reached ==
  /\ Returned /\ ~args.forward
  /\ args.log2_num_seqs = 2 /\ args.p.num_blocks = 4
  /\ args.data_len % 4 # 0
  /\ mem # input

\* ============================== the subroutines on the imitation and the keys
\* half the largest number of imitation keys
MaxHalf == 3

\* InterleaveBlocks is to be called: imit_len = 2 * h ascending keys, then h
\* blocks of a sorted left run and h blocks of a sorted right run, the runs
\* given by the counts cl and cr of their keys 0, 1, 2
InterleaveInit ==
  \E h \in 0..MaxHalf, block_len \in 1..MaxBlockLen :
    \E cl \in (0..(h * block_len)) \X (0..(h * block_len)),
       cr \in (0..(h * block_len)) \X (0..(h * block_len)) :
      /\ cl[1] <= cl[2] /\ cr[1] <= cr[2]
      /\ InitCall(2 * h + 2 * h * block_len,
                  [i \in 0..(2 * h + 2 * h * block_len - 1) |->
                     IF i < 2 * h THEN i
                     ELSE IF i < 2 * h + h * block_len
                     THEN RunKey(cl[1], cl[2], i - 2 * h)
                     ELSE RunKey(cr[1], cr[2], i - 2 * h - h * block_len)],
                  "InterleaveBlocks",
                  [imit |-> Guard, blocks |-> Guard + 2 * h, imit_len |-> 2 * h,
                   block_len |-> block_len])

\* InterleaveBlocks(imit, blocks, imit_len, block_len) is called
InterleaveBlocks_call ==
  /\ pc = "InterleaveBlocks"
  /\ LET r == InterleaveBlocks(Machine, args.imit, args.blocks, args.imit_len,
                               args.block_len)
     IN Return(r.m, [mid_key |-> r.mid_key])

\* DeinterleaveImitation is to be called: imit_len = 2 * h keys, the left
\* keys 0..h-1 ascending at the positions L and the right keys h..2h-1
\* ascending at the others, then one element and a buffer of h elements
DeinterleaveInit ==
  \E h \in 0..MaxHalf, use_buf \in BOOLEAN :
    \E L \in SUBSET (0..(2 * h - 1)) :
      /\ Cardinality(L) = h
      /\ InitCall(3 * h + 1,
                  [i \in 0..(3 * h) |->
                     IF i >= 2 * h THEN 0
                     ELSE IF i \in L THEN Cardinality({j \in L : j < i})
                     ELSE h + Cardinality({j \in (0..(i - 1)) \ L : TRUE})],
                  IF use_buf THEN "DeinterleaveImitationBuf" ELSE "DeinterleaveImitation",
                  [imit |-> Guard, imit_len |-> 2 * h, buf |-> Guard + 2 * h + 1,
                   mid_key |-> Guard + MinOf(((0..(2 * h - 1)) \ L) \cup {2 * h})])

\* DeinterleaveImitation(imit, imit_len, buf, mid_key) is called
DeinterleaveImitationBuf_call ==
  /\ pc = "DeinterleaveImitationBuf"
  /\ Return(DeinterleaveImitationBuf(Machine, args.imit, args.imit_len, args.buf,
                                     args.mid_key),
            [buffered |-> TRUE])

\* DeinterleaveImitation(imit, imit_len, mid_key): the return for imit_len = 0
\* or one pass of  do {...} while (num_rl_pairs > 1);  res holds l_runlength,
\* mid_key and num_rl_pairs of the passes made
DeinterleaveImitation_do ==
  /\ pc = "DeinterleaveImitation"
  /\ IF args.imit_len = 0
     THEN Return(Machine, [found |-> <<>>])
     ELSE LET begun == DOMAIN res # {}
              s == DeinterleaveImitation_pass(
                     [m |-> Machine,
                      l_runlength |-> IF begun THEN res.l_runlength ELSE 0,
                      r_runlength |-> 0, num_rl_pairs |-> 0,
                      mid_key |-> IF begun THEN res.mid_key ELSE args.mid_key],
                     args.imit + args.imit_len, args.imit)
              r == [l_runlength |-> s.l_runlength, mid_key |-> s.mid_key,
                    found |-> (IF begun THEN res.found ELSE <<>>)
                              \o <<s.num_rl_pairs>>]
          IN IF s.num_rl_pairs > 1
             THEN /\ mem' = s.m.a
                  /\ obs' = [lo |-> s.m.lo, hi |-> s.m.hi, mx |-> s.m.mx,
                             err |-> s.m.err, wild |-> s.m.wild, calls |-> s.m.calls]
                  /\ res' = r
                  /\ UNCHANGED <<pending, pc, input, first, last, args, sortVars>>
             ELSE Return(s.m, r)

\* longest array CollectKeys is called on
MaxCollect == 5

\* CollectKeys is to be called on an array of 2..MaxCollect elements, for
\* 2..MaxKey+2 keys
CollectInit ==
  \E n \in 2..MaxCollect, d \in 2..(MaxKey + 2) :
    \E k \in [0..(n - 1) -> 0..MaxKey] :
      InitCall(n, k, "CollectKeys_enter", [num_desired_keys |-> d])

\* CollectKeys(first, last, num_desired_keys) up to its loop
CollectKeys_enter ==
  /\ pc = "CollectKeys_enter"
  /\ ck' = [keys |-> first, keys_last |-> first + 1,
            num_desired_keys |-> args.num_desired_keys - 1]
  /\ cur' = first + 1
  /\ pc' = "CollectKeys"
  /\ UNCHANGED <<mem, pending, obs, args, res, input, first, last, len, imit,
                 num_keys, data, ctrl, iters, levels, ret>>

\* CollectKeys called on its own returns after its loop
CollectKeys_return ==
  /\ pc = "Collected" /\ pending = <<>>
  /\ LET f == CollectKeys_finish(Machine, first, ck)
     IN Return(f.m, [num_keys |-> f.num_keys])

\* longest array SortLeaves is called on
MaxLeaves == 64

\* SortLeaves is to be called as Sort0To8 calls it, on 4..8 elements with
\* (len, 0), or as Sort calls it, with the controller's seq_len and
\* log2_num_seqs for data_len > 8; the keys descend modulo c
LeavesInit ==
  \E n \in 4..MaxLeaves, c \in 1..(MaxKey + 1) :
    InitCall(n, [i \in 0..(n - 1) |-> (n - i) % c], "SortLeaves",
             [data |-> Guard, data_len |-> n,
              seq_len |-> IF n <= 8 THEN n ELSE MergeSortControl(0, n).seq_len,
              log2_num_seqs |-> IF n <= 8 THEN 0
                                ELSE MergeSortControl(0, n).log2_num_seqs])

\* SortLeaves(data, seq_len, {data_len, log2_num_seqs}) is called
SortLeaves_call ==
  /\ pc = "SortLeaves"
  /\ LET r == SortLeaves(Machine, args.data, args.seq_len,
                         SequenceDivider(args.data_len, args.log2_num_seqs, TRUE))
     IN Return(r.m, [runs |-> r.runs, data |-> r.data])

RoutineInit ==
  \/ InterleaveInit
  \/ DeinterleaveInit
  \/ CollectInit
  \/ LeavesInit

RoutineNext ==
  \/ InterleaveBlocks_call
  \/ DeinterleaveImitationBuf_call
  \/ DeinterleaveImitation_do
  \/ CollectKeys_enter
  \/ CollectKeys_iterate
  \/ ApplySwap
  \/ CollectKeys_return
  \/ SortLeaves_call

RoutineSpec == RoutineInit /\ [][RoutineNext]_vars

\* ------------------------------ properties of the imitation and key routines
\* the block-level merge by first element of the left blocks from the i-th on
\* and the right blocks from the j-th on: the input indices of the blocks in
\* their order, a right block first only if its first element is smaller
RECURSIVE BlockOrder(_, _)
BlockOrder(i, j) ==
  LET half == CDiv(args.imit_len, 2)
      l == input[args.blocks + i * args.block_len]
      r == input[args.blocks + (half + j) * args.block_len]
  IN IF i = half /\ j = half THEN <<>>
     ELSE IF j = half \/ (i # half /\ ~Less(r, l))
     THEN <<i>> \o BlockOrder(i + 1, j)
     ELSE <<half + j>> \o BlockOrder(i, j + 1)

\* C12: InterleaveBlocks leaves the blocks in the order of the block-level
\* merge by first element (ties to the left block), the keys permuted as the
\* blocks, and returns the position of the key that was at imit + imit_len/2;
\* with imit_len = 0 nothing changes and imit is returned.
InterleaveBlocksPost ==
  (Returned /\ "block_len" \in DOMAIN args) =>
    /\ ~obs.wild
    /\ \A t \in 1..args.imit_len :
         LET b == BlockOrder(0, 0)[t] IN
           /\ mem[args.imit + t - 1] = input[args.imit + b]
           /\ Sub(mem, args.blocks + (t - 1) * args.block_len,
                  args.blocks + t * args.block_len)
              = Sub(input, args.blocks + b * args.block_len,
                    args.blocks + (b + 1) * args.block_len)
           /\ b = CDiv(args.imit_len, 2) => res.mid_key = args.imit + t - 1
    /\ args.imit_len = 0 => mem = input /\ res.mid_key = args.imit

\* six blocks of two elements were interleaved, a right block first and a
\* tie between the first elements of a left and a right block
InterleaveBlocksPost_reached ==
  /\ Returned /\ "block_len" \in DOMAIN args
  /\ args.imit_len = 6 /\ args.block_len = 2
  /\ BlockOrder(0, 0)[1] = 3
  /\ res.mid_key = args.imit
  /\ \E i \in 0..2, j \in 3..5 :
       Key(input[args.blocks + i * 2]) = Key(input[args.blocks + j * 2])
  /\ mem # input

\* the machine before the call
InputMachine ==
  [a |-> input, rev |-> FALSE, log |-> <<>>, lo |-> 0, hi |-> -1, mx |-> 0,
   err |-> FALSE, wild |-> FALSE, calls |-> <<>>]

\* C13: both DeinterleaveImitation variants leave the imitation slice in
\* ascending order. With a buffer, [buf, buf + imit_len/2) holds a permutation
\* of its contents and nothing else changes; in place only the imitation
\* slice is touched, the first pass finds every (right-run, left-run) pair,
\* and the passes stop after the first that finds at most one pair.
DeinterleaveImitationPost ==
  (Returned /\ "imit_len" \in DOMAIN args /\ "block_len" \notin DOMAIN args) =>
    LET half == CDiv(args.imit_len, 2)
        slice == args.imit..(args.imit + args.imit_len - 1)
        buffer == args.buf..(args.buf + half - 1)
        pairs == Cardinality({i \in slice : /\ i + 1 \in slice
                                             /\ Key(input[i]) >= half
                                             /\ Key(input[i + 1]) < half})
    IN /\ ~obs.wild
       /\ \A i \in slice : Key(mem[i]) = i - args.imit
       /\ "buffered" \in DOMAIN res =>
            /\ Permutation(Sub(mem, args.buf, args.buf + half),
                           Sub(input, args.buf, args.buf + half))
            /\ \A i \in DOMAIN mem \ (slice \cup buffer) : mem[i] = input[i]
       /\ "found" \in DOMAIN res =>
            /\ \A i \in DOMAIN mem \ slice : mem[i] = input[i]
            /\ args.imit_len # 0 => obs.lo >= args.imit
                                    /\ obs.hi < args.imit + args.imit_len
            /\ mem = DeinterleaveImitation(InputMachine, args.imit, args.imit_len,
                                           args.mid_key).a
            /\ args.imit_len = 0 => res.found = <<>>
            /\ args.imit_len # 0 =>
                 /\ res.found[1] = pairs
                 /\ res.found[Len(res.found)] <= 1
                 /\ \A k \in 1..(Len(res.found) - 1) : res.found[k] > 1

\* six keys R L R L R L were sorted in place by more than one pass
DeinterleaveImitationPost_reached ==
  /\ Returned /\ "found" \in DOMAIN res
  /\ args.imit_len = 6
  /\ Len(res.found) >= 2
  /\ res.found[1] = 3
  /\ mem # input

\* six interleaved keys were sorted through the buffer
DeinterleaveImitationBufPost_reached ==
  /\ Returned /\ "buffered" \in DOMAIN res
  /\ args.imit_len = 6
  /\ args.mid_key = args.imit
  /\ mem # input

\* C14: for last - first >= 2 and num_desired_keys >= 2, CollectKeys returns
\* k = min(num_desired_keys, number of distinct keys) and leaves the first
\* occurrences of the first k distinct keys in strictly ascending order at
\* [first, first + k), then the duplicates it skipped in their input order,
\* then the elements it did not scan, untouched.
CollectKeysPost ==
  (Returned /\ "num_desired_keys" \in DOMAIN args) =>
    LET n == last - first
        F == {i \in 0..(n - 1) :
                \A j \in 0..(i - 1) : Key(input[first + j]) # Key(input[first + i])}
        k == IF Cardinality(F) < args.num_desired_keys
             THEN Cardinality(F) ELSE args.num_desired_keys
        Fk == {i \in F : Cardinality({j \in F : j <= i}) <= k}
        stop == IF Cardinality(F) >= args.num_desired_keys THEN MaxOf(Fk) ELSE n - 1
    IN /\ ~obs.wild
       /\ res.num_keys = k
       /\ \A t \in 0..(k - 1) :
            /\ Tag(mem[first + t]) \in Fk
            /\ t > 0 => Key(mem[first + t - 1]) < Key(mem[first + t])
       /\ \A t \in k..stop :
            /\ Tag(mem[first + t]) \in (0..stop) \ Fk
            /\ t > k => Tag(mem[first + t - 1]) < Tag(mem[first + t])
       /\ \A i \in DOMAIN mem : (i < first \/ i > first + stop) => mem[i] = input[i]
       /\ \A i \in DOMAIN mem : mem[i][1] = input[Guard + Tag(mem[i])][1]

\* three keys were collected from behind two skipped duplicates, and an
\* element was left unscanned
CollectKeysPost_reached ==
  /\ Returned /\ "num_desired_keys" \in DOMAIN args
  /\ res.num_keys = 3 /\ args.num_desired_keys = 3
  /\ last - first = 5
  /\ Key(input[first]) = Key(input[first + 1])
  /\ Key(input[first + 2]) < Key(input[first])
  /\ Key(input[first + 3]) > Key(input[first])
  /\ mem[last - 1] = input[last - 1]
  /\ mem # input

\* C15: the threaded dispatcher of SortLeaves sorts the same (start, length)
\* leaves, in the same order, as the loop  len = seq_len - seq_div.Next();
\* OddEvenSort<len>(data); data += len;  each by the OddEvenSort of its
\* length, and the leaves tile [data, data + data_len).
SortLeavesThreaded ==
  (Returned /\ "seq_len" \in DOMAIN args) =>
    LET lens == SeqLens(SequenceDivider(args.data_len, args.log2_num_seqs, TRUE),
                        args.seq_len)
    IN /\ ~obs.wild
       /\ Len(res.runs) = Len(lens)
       /\ Len(lens) = Pow2(args.log2_num_seqs)
       /\ \A i \in 1..Len(lens) :
            /\ res.runs[i] = <<args.data + LenSum(lens, i - 1), lens[i]>>
            /\ Ordered(Sub(mem, res.runs[i][1], res.runs[i][1] + lens[i]))
            /\ Stable(Sub(mem, res.runs[i][1], res.runs[i][1] + lens[i]))
            /\ Permutation(Sub(mem, res.runs[i][1], res.runs[i][1] + lens[i]),
                           Sub(input, res.runs[i][1], res.runs[i][1] + lens[i]))
       /\ LenSum(lens, Len(lens)) = args.data_len
       /\ res.data = args.data + args.data_len

\* leaves of two lengths were sorted, a shorter one after a longer one and a
\* longer one after a shorter one
SortLeavesThreaded_reached ==
  /\ Returned /\ "seq_len" \in DOMAIN args
  /\ args.data_len > 8
  /\ \E i, j \in 1..(Len(res.runs) - 1) :
       /\ res.runs[i][2] > res.runs[i + 1][2]
       /\ res.runs[j][2] < res.runs[j + 1][2]
  /\ mem # input

\* ============================================ MergeSortControl on its own
\* most keys and longest data a controller is made for
MaxCtrlKeys == 24
MaxCtrlData == 200

\* a controller is to be constructed for no key or for 8 keys or more, and
\* for more than 8 elements of data
ControlInit ==
  \E k \in {0} \cup (8..MaxCtrlKeys), n \in 9..MaxCtrlData :
    InitCall(0, [i \in {} |-> 0], "MergeSortControl",
             [num_keys |-> k, data_len |-> n])

\* MergeSortControl ctrl{num_keys, data_len}
MergeSortControl_construct ==
  /\ pc = "MergeSortControl"
  /\ ctrl' = MergeSortControl(args.num_keys, args.data_len)
  /\ pc' = "Control"
  /\ UNCHANGED <<mem, pending, obs, args, res, ck, cur, input, first, last, len,
                 imit, num_keys, data, iters, levels, ret>>

\* ctrl.Next() while ctrl.log2_num_seqs is not 0; res lists, for each call,
\* the value returned, buf_len before the call, and log2_num_seqs and seq_len
\* after it
MergeSortControl_Next_call ==
  /\ pc = "Control" /\ ctrl.log2_num_seqs # 0
  /\ ctrl' = MergeSortControl_Next(ctrl).ctrl
  /\ res' = Append(res, [ret |-> MergeSortControl_Next(ctrl).ret,
                         buf_len |-> ctrl.buf_len,
                         log2_num_seqs |-> MergeSortControl_Next(ctrl).ctrl.log2_num_seqs,
                         seq_len |-> MergeSortControl_Next(ctrl).ctrl.seq_len])
  /\ UNCHANGED <<mem, pending, obs, pc, args, ck, cur, input, first, last, len,
                 imit, num_keys, data, iters, levels, ret>>

ControlNext ==
  \/ MergeSortControl_construct
  \/ MergeSortControl_Next_call

ControlSpec == ControlInit /\ [][ControlNext]_vars

\* C16: over the calls of Next() from construction until log2_num_seqs is
\* 0, each call decrements log2_num_seqs and sets seq_len to
\* ((data_len - 1) >> log2_num_seqs) + 1; a call returns a nonzero value, the
\* buf_len held before it, exactly once when num_keys >= 8 and never when
\* num_keys = 0; that call is the first after which log2_num_seqs = 0 or
\* seq_len > bufferable_len; from then on buf_len = 0 and Next() returns 0;
\* and whenever buf_len > 0, seq_len <= bufferable_len
NextRetiresOnce ==
  pc = "Control" =>
    LET c0 == MergeSortControl(args.num_keys, args.data_len)
        calls == 1..Len(res)
        R == {i \in calls : res[i].ret # 0}
        F == {i \in calls : res[i].log2_num_seqs = 0 \/ res[i].seq_len > c0.bufferable_len}
    IN /\ ctrl.log2_num_seqs = c0.log2_num_seqs - Len(res)
       /\ ctrl.log2_num_seqs >= 0
       /\ ctrl.seq_len = Shr(args.data_len - 1, ctrl.log2_num_seqs) + 1
       /\ \A i \in calls :
            /\ res[i].log2_num_seqs = c0.log2_num_seqs - i
            /\ res[i].seq_len = Shr(args.data_len - 1, res[i].log2_num_seqs) + 1
            /\ res[i].ret # 0 => res[i].ret = res[i].buf_len
            /\ res[i].buf_len = IF \E j \in R : j < i THEN 0 ELSE c0.buf_len
       /\ Cardinality(R) <= 1
       /\ args.num_keys = 0 => R = {}
       /\ (args.num_keys >= 8 /\ ctrl.log2_num_seqs = 0) => Cardinality(R) = 1
       /\ args.num_keys >= 8 => R = {i \in F : \A j \in F : i <= j}
       /\ R # {} => ctrl.buf_len = 0 /\ ctrl.bufferable_len = 0
       /\ R = {} => ctrl.buf_len = c0.buf_len /\ ctrl.bufferable_len = c0.bufferable_len
       /\ ctrl.buf_len > 0 => ctrl.seq_len <= ctrl.bufferable_len

\* the buffer was retired by the second call of several, before the last level
NextRetiresOnce_reached ==
  /\ pc = "Control" /\ args.num_keys >= 8 /\ ctrl.log2_num_seqs = 0
  /\ Len(res) >= 4
  /\ res[1].ret = 0 /\ res[2].ret # 0 /\ res[2].log2_num_seqs > 0
  /\ res[Len(res)].ret = 0 /\ res[Len(res)].buf_len = 0

\* ================================================== the levels of Sort
\* C17: in a run of Sort with 8 keys or more the levels merged with the
\* buffer alternate in direction, the first being forward, and the call of
\* Next() about to be made flips forward exactly when buf_len > 0; at the
\* start of a forward level the buf_len buffer elements (the largest of the
\* collected keys) occupy [imit + imit_len, imit + imit_len + buf_len) and the
\* payload follows them up to last; at the start of a backward level they
\* occupy [last - buf_len, last) and the payload [imit + imit_len, last - buf_len)
LevelDirections ==
  (pc \in {"Level", "Next"} /\ pending = <<>> /\ ~obs.wild /\ num_keys >= 8) =>
    LET all == 0..(last - first - 1)
        KeyAt(t) == Key(input[first + t])
        keyTags == {t \in all : /\ \A j \in 0..(t - 1) : KeyAt(j) # KeyAt(t)
                                /\ Cardinality({KeyAt(j) : j \in 0..(t - 1)}) < num_keys}
        bufTags == {t \in keyTags :
                      Cardinality({u \in keyTags : KeyAt(u) < KeyAt(t)}) >= ctrl.imit_len}
        TagsIn(a, b) == {Tag(mem[i]) : i \in a..(b - 1)}
        buf == imit + ctrl.imit_len
    IN /\ pc = "Next" =>
            ((MergeSortControl_Next(ctrl).ctrl.forward # ctrl.forward) <=> ctrl.buf_len > 0)
       /\ (pc = "Level" /\ ctrl.buf_len > 0) =>
            /\ ctrl.forward <=> iters % 2 = 0
            /\ Cardinality(keyTags) = num_keys
            /\ Cardinality(bufTags) = ctrl.buf_len
            /\ TagsIn(imit, buf) = keyTags \ bufTags
            /\ ctrl.forward =>
                 /\ buf + ctrl.buf_len = data
                 /\ TagsIn(buf, buf + ctrl.buf_len) = bufTags
                 /\ TagsIn(buf + ctrl.buf_len, last) = all \ keyTags
            /\ ~ctrl.forward =>
                 /\ TagsIn(last - ctrl.buf_len, last) = bufTags
                 /\ TagsIn(buf, last - ctrl.buf_len) = all \ keyTags

\* a backward level is about to start, after a forward one
LevelDirections_reached ==
  /\ pc = "Level" /\ pending = <<>> /\ ~obs.wild /\ num_keys >= 8
  /\ ctrl.buf_len > 0 /\ ~ctrl.forward /\ iters = 1
  /\ \E i \in (last - ctrl.buf_len)..(last - 1) : Tag(mem[i]) # Tag(input[i])

\* C18: right after the iteration of the level loop in which ctrl.Next()
\* returned a nonzero old_buf_len, whether the level completed was forward
\* (the buffer is swapped from the tail to the front) or backward, the
\* num_keys collected keys occupy [imit, data) in strictly ascending order, the
\* payload occupies [data, last) in the order it had before the relocation,
\* and ctrl.forward is true. The memory after the iteration is mem once the
\* pending swaps of the step are performed.
BufferRetired ==
  [][(pc = "Next" /\ pc' # "Next" /\ num_keys >= 8 /\ ctrl.buf_len # 0 /\ ctrl'.buf_len = 0) =>
       LET all == 0..(last - first - 1)
           KeyAt(t) == Key(input[first + t])
           keyTags == {t \in all : /\ \A j \in 0..(t - 1) : KeyAt(j) # KeyAt(t)
                                   /\ Cardinality({KeyAt(j) : j \in 0..(t - 1)}) < num_keys}
           Touching(i) == {k \in 1..Len(pending') : pending'[k][1] = i \/ pending'[k][2] = i}
           Latest(i) == CHOOSE k \in Touching(i) : \A j \in Touching(i) : j <= k
           after == [i \in DOMAIN mem |->
                       IF Touching(i) = {} THEN mem'[i]
                       ELSE IF pending'[Latest(i)][2] = i THEN pending'[Latest(i)][4]
                       ELSE pending'[Latest(i)][3]]
       IN /\ pending = <<>> /\ mem' = mem /\ ~obs'.wild
          /\ ctrl'.forward
          /\ data' = imit' + num_keys'
          /\ {Tag(after[i]) : i \in imit..(data - 1)} = keyTags
          /\ \A i \in imit..(data - 2) : Less(after[i], after[i + 1])
          /\ Sub(after, data, last)
               = IF ctrl.forward
                 THEN Sub(mem, data - ctrl.buf_len, last - ctrl.buf_len)
                 ELSE Sub(mem, data, last)
          /\ {Tag(after[i]) : i \in data..(last - 1)} = all \ keyTags]_vars

\* the buffer was retired after a forward level, from the tail of the array,
\* and the iteration is complete
BufferRetired_reached ==
  /\ pc \in {"Level", "Final"} /\ pending = <<>> /\ ~obs.wild
  /\ num_keys >= 8 /\ ctrl.buf_len = 0 /\ iters = 1
  /\ ctrl.forward
  /\ \E i \in data..(last - 1) : Tag(mem[i]) # Tag(input[i])

\* C19: imit_len is even and non-negative in every state of a
\* MergeSortControl: after construction with num_keys = 0 or num_keys >= 8,
\* odd or even, and after any number of calls of Next(), the call that
\* retires a buffer of odd length included
ImitLenEven ==
  pc = "Control" => ctrl.imit_len >= 0 /\ ctrl.imit_len % 2 = 0

\* a buffer of odd length has been retired, and Next() was called again
ImitLenEven_reached ==
  /\ pc = "Control" /\ args.num_keys % 2 = 1
  /\ Len(res) >= 2 /\ res[Len(res)].ret = 0
  /\ \E i \in 1..Len(res) : res[i].ret # 0 /\ res[i].ret % 2 = 1
  /\ ctrl.imit_len > 0

ControlConstructed ==
  (pc = "Control" /\ res = <<>>) =>
    /\ args.num_keys >= 8 =>
         /\ ctrl.imit_len = ((args.num_keys + 2) \div 4) * 2 - 2
         /\ ctrl.buf_len = args.num_keys - ctrl.imit_len
         /\ ctrl.bufferable_len = ((ctrl.imit_len + 2) \div 2) * ctrl.buf_len
         /\ ctrl.imit_len >= 2
         /\ ctrl.buf_len >= ctrl.imit_len + 2
         /\ ctrl.bufferable_len >= 8
    /\ args.num_keys = 0 =>
         ctrl.imit_len = 0 /\ ctrl.buf_len = 0 /\ ctrl.bufferable_len = 0
    /\ ctrl.data_len = args.data_len
    /\ ctrl.log2_num_seqs >= 1
    /\ (args.data_len - 1) \div (2 ^ (ctrl.log2_num_seqs + 3)) = 0
    /\ \A l \in 1..(ctrl.log2_num_seqs - 1) : (args.data_len - 1) \div (2 ^ (l + 3)) # 0
    /\ ctrl.seq_len = ((args.data_len - 1) \div (2 ^ ctrl.log2_num_seqs)) + 1
    /\ ctrl.seq_len \in 5..8
    /\ ctrl.forward

\* a controller for an odd number of keys and 8 sequences or more has just
\* been constructed
ControlConstructed_reached ==
  /\ pc = "Control" /\ res = <<>>
  /\ args.num_keys >= 9 /\ args.num_keys % 2 = 1
  /\ ctrl.log2_num_seqs >= 3 /\ ctrl.seq_len = 8

\* C24: for every controller made from num_keys = 0 or >= 8 and data_len > 8,
\* after any number of calls of Next() that leave log2_num_seqs >= 1,
\* DetermineBlocking returns an even num_blocks with
\* 2 <= num_blocks <= imit_len + 2, block_len >= 3, first_block_len =
\* last_block_len with 2 <= first_block_len <= block_len, first_block_len
\* still >= 2 after the decrement MergeOneLevel applies for every run the
\* sequence divider (forward or backward) reports as shorter, and
\* block_len * (num_blocks / 2 - 1) + first_block_len = seq_len
BlockingDetermined ==
  (pc = "Control" /\ ctrl.log2_num_seqs >= 1) =>
    LET p == DetermineBlocking(ctrl)
        Decrs(lens) == {ctrl.seq_len - lens[i] : i \in DOMAIN lens}
        decrs == UNION {Decrs(SeqLens(SequenceDivider(ctrl.data_len, ctrl.log2_num_seqs, f),
                                      ctrl.seq_len)) : f \in BOOLEAN}
    IN /\ p.num_blocks % 2 = 0
       /\ 2 <= p.num_blocks /\ p.num_blocks <= ctrl.imit_len + 2
       /\ p.block_len >= 3
       /\ p.first_block_len = p.last_block_len
       /\ 2 <= p.first_block_len /\ p.first_block_len <= p.block_len
       /\ decrs \subseteq {0, 1}
       /\ \A d \in decrs : p.first_block_len - d >= 2
       /\ p.block_len * (p.num_blocks \div 2 - 1) + p.first_block_len = ctrl.seq_len

\* a blocking of 4 blocks or more for a level with a shorter run, after the
\* buffer was retired
BlockingDetermined_reached ==
  /\ pc = "Control" /\ ctrl.log2_num_seqs >= 1
  /\ args.num_keys >= 8 /\ ctrl.buf_len = 0 /\ Len(res) >= 2
  /\ DetermineBlocking(ctrl).num_blocks >= 4
  /\ DetermineBlocking(ctrl).first_block_len < DetermineBlocking(ctrl).block_len
  /\ ctrl.data_len % (2 ^ ctrl.log2_num_seqs) # 0

\* ================================================= the utilities on their own
\* longest data and most sequences (as a power of 2) a divider is made for
MaxDivData == 40
MaxDivLog == 5

\* every range up to this length is rotated at every middle
MaxRotate == 70
\* a long range, rotated at the middles within MidRotate of its centre
LongRotate == 140
MidRotate == 6

\* longest sorted range searched
MaxSearch == 9

\* largest argument of OverApproxSqrt
MaxSqrt == 3000

\* the inputs of the utilities
UtilityInit ==
  \/ \E d \in 1..MaxDivData, l \in 0..MaxDivLog, f \in BOOLEAN :
       /\ 2 ^ l <= d
       /\ InitCall(0, [i \in {} |-> 0], "SequenceDivider",
                   [data_len |-> d, log2_num_seqs |-> l, forward |-> f])
  \/ \E n \in 2..MaxRotate, i \in 1..(MaxRotate - 1) :
       /\ i < n
       /\ InitCall(n, [j \in 0..(n - 1) |-> 0], "Rotate",
                   [first |-> Guard, middle |-> Guard + i, last |-> Guard + n])
  \/ \E i \in (LongRotate \div 2 - MidRotate)..(LongRotate \div 2 + MidRotate) :
       InitCall(LongRotate, [j \in 0..(LongRotate - 1) |-> 0], "Rotate",
                [first |-> Guard, middle |-> Guard + i, last |-> Guard + LongRotate])
  \/ \E n \in 1..MaxSearch, c1 \in 0..MaxSearch, c2 \in 0..MaxSearch :
       \E kv \in -1..3, left \in BOOLEAN, strict \in BOOLEAN :
         /\ c1 <= c2 /\ c2 <= n
         /\ InitCall(n + 2,
                     [j \in 0..(n + 1) |->
                        IF j = 0 \/ j = n + 1 THEN kv ELSE RunKey(c1, c2, j - 1)],
                     "BinarySearch",
                     [first |-> Guard + 1, last |-> Guard + 1 + n,
                      key |-> IF left THEN Guard ELSE Guard + 1 + n,
                      strict |-> strict])
  \/ \E x \in 8..MaxSqrt :
       InitCall(0, [j \in {} |-> 0], "OverApproxSqrt", [x |-> x])

\* SequenceDivider<SsizeT, forward> seq_div{data_len, log2_num_seqs}
SequenceDivider_construct ==
  /\ pc = "SequenceDivider"
  /\ res' = [sd |-> SequenceDivider(args.data_len, args.log2_num_seqs, args.forward),
             calls |-> <<>>]
  /\ pc' = "Divider"
  /\ UNCHANGED <<mem, pending, obs, args, input, first, last, sortVars>>

\* seq_div.Next() while !seq_div.IsEnd(); calls lists the values returned
SequenceDivider_Next_call ==
  /\ pc = "Divider" /\ ~IsEnd(res.sd)
  /\ res' = [sd |-> SequenceDivider_Next(res.sd).sd,
             calls |-> Append(res.calls, SequenceDivider_Next(res.sd).no_carry)]
  /\ UNCHANGED <<mem, pending, obs, pc, args, input, first, last, sortVars>>

\* Rotate(first, middle, last) is called
Rotate_call ==
  /\ pc = "Rotate"
  /\ Return(Rotate(Machine, args.first, args.middle, args.last), [rotated |-> TRUE])

\* BinarySearch<strict>(first, last, key) is called
BinarySearch_call ==
  /\ pc = "BinarySearch"
  /\ LET r == BinarySearch(Machine, args.first, args.last, args.key, args.strict)
     IN Return(r.m, [pos |-> r.pos])

\* OverApproxSqrt(x) is called
OverApproxSqrt_call ==
  /\ pc = "OverApproxSqrt"
  /\ Return(ChkDiv(Chk(Machine, OverApproxSqrt_vals(args.x)), OverApproxSqrt_r0(args.x)),
            [r |-> OverApproxSqrt(args.x)])

UtilityNext ==
  \/ SequenceDivider_construct
  \/ SequenceDivider_Next_call
  \/ Rotate_call
  \/ BinarySearch_call
  \/ OverApproxSqrt_call

UtilitySpec == UtilityInit /\ [][UtilityNext]_vars

\* C22: for data_len >= 1 and N = 2^log2_num_seqs <= data_len, the values
\* seq_len - Next() of a forward SequenceDivider, seq_len being
\* ((data_len - 1) >> log2_num_seqs) + 1, are the lengths of the slices
\* [floor(i * data_len / N), floor((i + 1) * data_len / N)), i = 0..N-1: they
\* sum to data_len and differ by at most one, IsEnd() is true exactly after
\* the N-th call, and each of the N/2 runs of the next level is the union of
\* two adjacent runs
DividerLengths ==
  (pc = "Divider" /\ args.forward) =>
    LET D == args.data_len
        N == 2 ^ args.log2_num_seqs
        seq_len == ((D - 1) \div N) + 1
        n == Len(res.calls)
        lens == [i \in 1..n |-> seq_len - B2I(res.calls[i])]
        Halves(up) == \A j \in 1..(N \div 2) : up[j] = lens[2 * j - 1] + lens[2 * j]
    IN /\ n <= N
       /\ IsEnd(res.sd) <=> n = N
       /\ \A i \in 1..n : lens[i] = (i * D) \div N - ((i - 1) * D) \div N
       /\ \A i, j \in 1..n : lens[i] - lens[j] <= 1
       /\ LenSum(lens, n) = (n * D) \div N
       /\ n = N => LenSum(lens, n) = D
       /\ (n = N /\ N >= 2) =>
            Halves(SeqLens(SequenceDivider(D, args.log2_num_seqs - 1, TRUE),
                           ((D - 1) \div (N \div 2)) + 1))

\* a forward divider of 8 sequences or more, some of them shorter, is at its end
DividerLengths_reached ==
  /\ pc = "Divider" /\ args.forward /\ args.log2_num_seqs >= 3
  /\ IsEnd(res.sd)
  /\ \E i, j \in 1..Len(res.calls) : res.calls[i] /\ ~res.calls[j]

\* C23: for the same (data_len, log2_num_seqs), the values Next() returns
\* on a backward SequenceDivider are those of the forward one in reverse: the
\* k-th backward call reports a shortened run iff the forward call N-1-k
\* (counting from 0) does, so that the backward runs end at the same
\* boundaries, counted from the right
DividerBackward ==
  (pc = "Divider" /\ ~args.forward) =>
    LET D == args.data_len
        N == 2 ^ args.log2_num_seqs
        seq_len == ((D - 1) \div N) + 1
        n == Len(res.calls)
        lens == [i \in 1..n |-> seq_len - B2I(res.calls[i])]
        Reversed(fwd) == \A k \in 1..n : lens[k] = fwd[N + 1 - k]
    IN /\ n <= N
       /\ IsEnd(res.sd) <=> n = N
       /\ Reversed(SeqLens(SequenceDivider(D, args.log2_num_seqs, TRUE), seq_len))
       /\ D - LenSum(lens, n) = ((N - n) * D) \div N

\* a backward divider of 8 sequences or more, some of them shorter and not
\* symmetrically placed, is at its end
DividerBackward_reached ==
  /\ pc = "Divider" /\ ~args.forward /\ args.log2_num_seqs >= 3
  /\ IsEnd(res.sd)
  /\ \E i \in 1..Len(res.calls) : res.calls[i] # res.calls[Len(res.calls) + 1 - i]

\* C28: for first < middle < last, Rotate leaves [first, last) equal to the
\* old [middle, last) followed by the old [first, middle), each in its order,
\* and touches nothing outside [first, last); for lengths up to 64 (three
\* reversals) and above (helix steps, with the early return when one side's
\* length divides the other's, then three reversals of the remainder)
RotatePost ==
  (Returned /\ "middle" \in DOMAIN args) =>
    /\ ~obs.wild /\ ~obs.err
    /\ Sub(mem, args.first, args.last)
         = Sub(input, args.middle, args.last) \o Sub(input, args.first, args.middle)
    /\ \A i \in DOMAIN mem : (i < args.first \/ i >= args.last) => mem[i] = input[i]
    /\ obs.lo >= args.first /\ obs.hi < args.last

\* a range longer than 64 was rotated where neither side's length divides
\* the other's
RotatePost_reached ==
  /\ Returned /\ "middle" \in DOMAIN args
  /\ args.last - args.first > 64
  /\ (args.last - args.middle) % (args.middle - args.first) # 0
  /\ (args.middle - args.first) % (args.last - args.middle) # 0
  /\ mem # input

\* C29: for a non-empty sorted range [first, last) and a key,
\* BinarySearch<true> returns pos with comp(*x, *key) iff x < pos for every x
\* of the range (lower bound) and BinarySearch<false> pos with
\* !comp(*key, *x) iff x < pos (upper bound); pos lies in [first, last] and
\* every position probed lies in [first, last); the key is the element next
\* to the range on its left or on its right
BinarySearchPost ==
  (Returned /\ "strict" \in DOMAIN args) =>
    /\ ~obs.wild /\ ~obs.err
    /\ mem = input
    /\ res.pos >= args.first /\ res.pos <= args.last
    /\ \A x \in args.first..(args.last - 1) :
         (IF args.strict THEN Less(mem[x], mem[args.key])
          ELSE ~Less(mem[args.key], mem[x])) <=> x < res.pos
    /\ args.key < args.first => obs.lo = args.key /\ obs.hi < args.last
    /\ args.key >= args.last => obs.lo >= args.first /\ obs.hi = args.key

\* the upper bound of a key that occurs several times, inside a range whose
\* length is not a power of 2
BinarySearchPost_reached ==
  /\ Returned /\ "strict" \in DOMAIN args /\ ~args.strict
  /\ args.last - args.first = 7
  /\ res.pos > args.first + 2 /\ res.pos < args.last
  /\ Key(mem[res.pos - 1]) = Key(mem[args.key])
  /\ Key(mem[res.pos - 2]) = Key(mem[args.key])
  /\ Key(mem[args.first]) < Key(mem[args.key])

\* C30: for every integer x >= 8, r = OverApproxSqrt(x) satisfies
\* r * r >= x and 2 * r < x; r = 3 for x = 8; r = 4 for 9 <= x <= 16; and
\* 16 * r * r < 25 * x for x > 16; no division is by zero and no value
\* computed on the way exceeds x
OverApproxSqrtPost ==
  (Returned /\ "x" \in DOMAIN args) =>
    /\ ~obs.err
    /\ obs.mx <= args.x
    /\ res.r * res.r >= args.x
    /\ 2 * res.r < args.x
    /\ args.x = 8 => res.r = 3
    /\ (9 <= args.x /\ args.x <= 16) => res.r = 4
    /\ args.x > 16 => 16 * res.r * res.r < 25 * args.x

\* an argument above 16 that is not a square, whose root is rounded up
OverApproxSqrtPost_reached ==
  /\ Returned /\ "x" \in DOMAIN args /\ args.x > 1000
  /\ res.r * res.r > args.x
  /\ (res.r - 1) * (res.r - 1) < args.x

\* C27: when more than 16 elements are sorted and CollectKeys finds k < 8
\* distinct keys, Sort advances imit past them and clears num_keys: the
\* controller has imit_len = 0 and buf_len = 0 at every level, every level
\* merges without buffer with num_blocks = 2 and accesses nothing below imit
\* (the imitation is empty), SortLeaves and the levels leave the prefix
\* [first, first + k) as CollectKeys left it, and the prefix is merged by the
\* final MergeWithoutBuf<false>(first, data, last). For 8 < n <= 16 no key is
\* collected and no final merge is made.
FewKeysPrefix ==
  LET n == last - first
      all == 0..(n - 1)
      KeyAt(t) == Key(input[first + t])
      keyTags == {t \in all : \A j \in 0..(t - 1) : KeyAt(j) # KeyAt(t)}
      after == pc \in {"Level", "Next", "Final"}
      few == /\ n > 16 /\ num_keys = 0 /\ ~obs.wild
             /\ (after \/ (pc = "Leaves" /\ pending = <<>>))
  IN /\ few =>
          /\ imit = first + Cardinality(keyTags)
          /\ imit > first /\ imit < first + 8
          /\ len = last - imit
          /\ {Tag(mem[i]) : i \in first..(imit - 1)} = keyTags
          /\ \A i \in first..(imit - 2) : Less(mem[i], mem[i + 1])
          /\ {Tag(mem[i]) : i \in imit..(last - 1)} = all \ keyTags
          /\ \A e \in 1..Len(pending) : pending[e][1] >= imit /\ pending[e][2] >= imit
          /\ after => /\ data = imit
                      /\ ctrl.imit_len = 0 /\ ctrl.buf_len = 0
          /\ (pc = "Leaves" /\ pending = <<>>) =>
               LET c == MergeSortControl(0, len)
               IN SortLeaves(NewMachine(mem), imit, c.seq_len,
                             SequenceDivider(c.data_len, c.log2_num_seqs, TRUE)).m.lo >= imit
          /\ (pc = "Level" /\ pending = <<>>) =>
               /\ DetermineBlocking(ctrl).num_blocks = 2
               /\ MergeOneLevel(NewMachine(mem), imit, imit + ctrl.imit_len, data,
                                ctrl.seq_len,
                                SequenceDivider(ctrl.data_len, ctrl.log2_num_seqs, TRUE),
                                DetermineBlocking(ctrl), FALSE, TRUE).m.lo >= imit
          /\ (pc = "Final" /\ pending = <<>>) =>
               /\ first # data
               /\ ctrl.log2_num_seqs = 0
               /\ Ordered(Sub(mem, data, last)) /\ Stable(Sub(mem, data, last))
     /\ (n > 8 /\ n <= 16) =>
          /\ pc \notin {"CollectKeys", "Collected"}
          /\ ck = NoKeys /\ num_keys = 0
          /\ pc \in {"Leaves", "Level", "Next", "Final", "Return", "Done"} => imit = first
          /\ pc \in {"Level", "Next", "Final", "Return", "Done"} => data = first
          /\ pc = "Return" => pending = <<>>

\* fewer than 8 keys were collected from more than 16 elements, two levels or
\* more were merged, and the final merge is about to be made
FewKeysPrefix_reached ==
  /\ pc = "Final" /\ pending = <<>> /\ ~obs.wild
  /\ last - first > 16 /\ num_keys = 0 /\ imit - first >= 3 /\ iters >= 2
  /\ \E i \in imit..(last - 1) : Less(mem[i], mem[first + 1])

\* ========================================= the merges of a buffered level
\* C25: in every level of a Sort run merged with the buffer, each call of
\* MergeWithBuf made by MergeAdjacentBlocks<true> has buf < xs < ys < ys_last,
\* xs - buf equal to the controller's buf_len and ys_last - ys <= buf_len;
\* block_len <= buf_len; MergeWithoutBuf is never called; and the buffered
\* DeinterleaveImitation of each pair of sequences finds (num_blocks - 2) / 2
\* distinct cells at buf, all holding buffer elements. The calls recorded at
\* pc = "Next" are those of the level just merged, and ctrl is still the
\* controller of that level.
BufferedCalls ==
  (pc = "Next" /\ num_keys >= 8 /\ ctrl.buf_len > 0) =>
    LET all == 0..(last - first - 1)
        KeyAt(t) == Key(input[first + t])
        keyTags == {t \in all : /\ \A j \in 0..(t - 1) : KeyAt(j) # KeyAt(t)
                                /\ Cardinality({KeyAt(j) : j \in 0..(t - 1)}) < num_keys}
        bufTags == {t \in keyTags :
                      Cardinality({u \in keyTags : KeyAt(u) < KeyAt(t)}) >= ctrl.imit_len}
        p == DetermineBlocking(ctrl)
        calls == obs.calls
    IN /\ ~obs.wild
       /\ p.block_len <= ctrl.buf_len
       /\ Cardinality({k \in 1..Len(calls) : calls[k].op = "DeinterleaveImitation"})
            = 2 ^ (ctrl.log2_num_seqs - 1)
       /\ \E k \in 1..Len(calls) : calls[k].op = "MergeWithBuf"
       /\ \A k \in 1..Len(calls) :
            LET c == calls[k] IN
              /\ c.op \in {"MergeWithBuf", "DeinterleaveImitation"}
              /\ c.op = "MergeWithBuf" =>
                   /\ c.buf < c.xs /\ c.xs < c.ys /\ c.ys < c.ys_last
                   /\ c.xs - c.buf = ctrl.buf_len
                   /\ c.ys_last - c.ys <= ctrl.buf_len
              /\ c.op = "DeinterleaveImitation" =>
                   /\ c.imit_len = p.num_blocks - 2
                   /\ Cardinality(c.cells) = (p.num_blocks - 2) \div 2
                   /\ c.cells \subseteq bufTags

\* a backward level was merged with the buffer: blocks of one origin were
\* skipped before a merge, and the imitation was deinterleaved through two
\* buffer cells or more
BufferedCalls_reached ==
  /\ pc = "Next" /\ num_keys >= 8 /\ ctrl.buf_len > 0 /\ ~ctrl.forward
  /\ \E k \in 1..Len(obs.calls) :
       /\ obs.calls[k].op = "MergeWithBuf"
       /\ obs.calls[k].xs # obs.calls[k].last_block_before_ys
  /\ \E k \in 1..Len(obs.calls) :
       /\ obs.calls[k].op = "DeinterleaveImitation"
       /\ Cardinality(obs.calls[k].cells) >= 2

\* ====================================== the merges of an unbuffered level
\* the statement without its exception: in every level merged without the
\* buffer, each call of MergeWithoutBuf has xs no longer than ys
UnbufferedXsShort ==
  (pc = "Next" /\ ctrl.buf_len = 0) =>
    \A k \in 1..Len(obs.calls) :
      obs.calls[k].op = "MergeWithoutBuf" =>
        obs.calls[k].ys - obs.calls[k].xs <= obs.calls[k].ys_last - obs.calls[k].ys

\* C26: in every level merged without the buffer MergeAdjacentBlocks calls
\* MergeWithoutBuf only, with xs < ys < ys_last and xs no longer than
\* block_len. xs is longer than ys only when ys is the last block and xs is
\* what the previous merge left (or the first block), no block having been
\* skipped. When blocks were skipped before the last block and xs is longer
\* than it, Rotate(xs, ys, ys_last) is called, and the merge that follows has
\* the last block as xs, marked as coming from the right, and xs shorter than ys.
UnbufferedCalls ==
  (pc = "Next" /\ ctrl.buf_len = 0) =>
    LET p == DetermineBlocking(ctrl)
        calls == obs.calls
    IN /\ ~obs.wild
       /\ \E k \in 1..Len(calls) : calls[k].op = "MergeWithoutBuf"
       /\ \A k \in 1..Len(calls) :
            LET c == calls[k] IN
              /\ c.op \in {"MergeWithoutBuf", "Rotate"}
              /\ c.op = "MergeWithoutBuf" =>
                   /\ c.xs < c.ys /\ c.ys < c.ys_last
                   /\ c.ys - c.xs <= p.block_len
                   /\ c.ys - c.xs > c.ys_last - c.ys =>
                        /\ c.num_remained_blocks = 0
                        /\ c.xs = c.last_block_before_ys
                   /\ (c.num_remained_blocks = 0 /\ c.xs # c.last_block_before_ys
                       /\ c.is_xs_from_right) =>
                        /\ k > 1
                        /\ calls[k - 1].op = "Rotate"
              /\ c.op = "Rotate" =>
                   /\ c.first < c.middle /\ c.middle < c.last
                   /\ c.middle - c.first > c.last - c.middle
                   /\ k < Len(calls)
                   /\ calls[k + 1].op = "MergeWithoutBuf"
                   /\ calls[k + 1].num_remained_blocks = 0
                   /\ calls[k + 1].xs # calls[k + 1].last_block_before_ys
                   /\ calls[k + 1].is_xs_from_right
                   /\ calls[k + 1].xs = c.first
                   /\ calls[k + 1].ys = c.first + (c.last - c.middle)
                   /\ calls[k + 1].ys_last = c.last

\* a level was merged without the buffer in which the last block was rotated
\* in front of a longer xs, and the merge that followed was called with the
\* roles exchanged
UnbufferedCalls_reached ==
  /\ pc = "Next" /\ ctrl.buf_len = 0
  /\ \E k \in 1..(Len(obs.calls) - 1) :
       /\ obs.calls[k].op = "Rotate"
       /\ obs.calls[k + 1].op = "MergeWithoutBuf"
       /\ obs.calls[k + 1].is_xs_from_right
       /\ obs.calls[k + 1].ys - obs.calls[k + 1].xs
            < obs.calls[k + 1].ys_last - obs.calls[k + 1].ys

=============================================================================
